---- MODULE Spec2Model ----
(***************************************************************************)
(* A model of the permissio-go client: the client-side permission check    *)
(* (CheckWithDetails, CheckAndThrow, BulkCheck, getRolePermissions) of     *)
(* pkg/permit and the retrying transport (BaseClient.Request) of pkg/api.  *)
(*                                                                         *)
(* Strings whose structure matters (resource types, actions, permission    *)
(* strings) are sequences of one-character strings, so that                *)
(* fmt.Sprintf("%s:%s", t, a) is the concatenation t \o <<":">> \o a.       *)
(* Opaque keys (user keys, role keys, tenant keys) are TLA+ strings.       *)
(***************************************************************************)
EXTENDS Integers, Sequences, FiniteSets, TLC

VARIABLES
    config,            \* config.Config: ThrowOnError, ProjectID, EnvironmentID, RetryAttempts
    scopeInitialized,  \* Client.scopeInitialized
    remote,            \* the remote service: role catalog, scope body, faults it may produce
    call,              \* the last API call: operation, arguments, remote responses consumed
    ret,               \* what the last API call returned
    requests,          \* the HTTP fetches the last API call issued, in order
    ctx,               \* the caller's context.Context: "live" or "cancelled"
    trace,             \* BaseClient.Request: its backoff waits and attempts, and the
                       \* caller's cancellation, in order
    callers,           \* the goroutines calling ensureScope concurrently: where each is
    scopeMu            \* Client.scopeMu: the goroutine holding it, or Unlocked

vars == <<config, scopeInitialized, remote, call, ret, requests, ctx, trace, callers, scopeMu>>

----------------------------------------------------------------------------
(* Bounds of the model *)

MaxPerms == 1      \* permissions declared per role
MaxExtends == 1    \* parents per role
MaxAssign == 2     \* role assignments returned for one user
MaxLen == 2        \* characters of a resource type or an action
MaxRetry == 3      \* largest configured RetryAttempts
MaxBatch == 2      \* checks in one BulkCheck
MaxCallers == 3    \* goroutines calling ensureScope on one client
MaxFetches == 2    \* scope fetches after which no new call is started
MaxParents == 2    \* entries of one role's Extends in the inheritance graphs

----------------------------------------------------------------------------
(* Generic helpers *)

Nil == [nil |-> TRUE]

SeqsUpTo(S, n) == UNION {[1..k -> S] : k \in 0..n}

Range(s) == {s[i] : i \in DOMAIN s}

\* All orders in which a Go map with key set S may be iterated.
Orders(S) == {o \in [1..Cardinality(S) -> S] : Range(o) = S}

NoDup(s) == \A i, j \in DOMAIN s : s[i] = s[j] => i = j

----------------------------------------------------------------------------
(* Errors: pkg/api errors.go *)

PermisError(message, code, status) ==
    [type |-> "PermisError", Message |-> message, Code |-> code, StatusCode |-> status]

\* The fail-fast variant's synthetic error.
AccessDeniedError(message) ==
    [type |-> "PermisError", Message |-> message, Code |-> "ACCESS_DENIED", StatusCode |-> 403]

\* err.Error(): the text of an error.
ErrorText(e) ==
    IF e.type = "PermisError"
    THEN IF e.Code # ""
         THEN <<"[", e.Code, "] ", e.Message, " (status: ", ToString(e.StatusCode), ")">>
         ELSE <<e.Message, " (status: ", ToString(e.StatusCode), ")">>
    ELSE <<e.Message>>

\* What a List call can return as error once Request has given up.
ErrNotFound == PermisError("Not Found", "", 404)
ErrServer == PermisError("Internal Server Error", "", 500)
ErrNetwork == [type |-> "error", Message |-> "request failed: connection refused"]
AllFaults == {ErrNotFound, ErrServer, ErrNetwork}

----------------------------------------------------------------------------
(* Configuration: pkg/config *)

HasScope(cfg) == cfg.ProjectID # "" /\ cfg.EnvironmentID # ""

UpdateScope(cfg, projectID, environmentID) ==
    [cfg EXCEPT !.ProjectID = projectID, !.EnvironmentID = environmentID]

----------------------------------------------------------------------------
(* URLs and query strings: pkg/api base.go *)

BuildFactsURL(cfg, path) ==
    IF HasScope(cfg)
    THEN <<"/v1/facts/", cfg.ProjectID, "/", cfg.EnvironmentID, path>>
    ELSE <<"/v1", path>>

BuildSchemaURL(cfg, path) ==
    IF HasScope(cfg)
    THEN <<"/v1/schema/", cfg.ProjectID, "/", cfg.EnvironmentID, path>>
    ELSE <<"/v1", path>>

\* ListParamsToMap: page and perPage are added only when positive.
ListParamsToMap(page, perPage, extra) ==
    LET paging == (IF page > 0 THEN {<<"page", ToString(page)>>} ELSE {})
                  \cup (IF perPage > 0 THEN {<<"perPage", ToString(perPage)>>} ELSE {})
    IN  paging \cup extra

\* BuildQueryParams: a parameter whose value is empty is left out of the query.
BuildQueryParams(params) == {p \in params : p[2] # ""}

\* The page size CheckWithDetails asks the role catalog for.
RolesPerPage == 100

----------------------------------------------------------------------------
(* Scope resolution, one caller at a time: permit.go ensureScope *)

ScopeAdvice ==
    "Either provide projectId and environmentId in config, or ensure the API key has valid scope"

\* Mutant: a failed fetch is passed over in silence.
fetchAndSetScopeSwallowing(cfg, out) ==
    IF out.kind = "ok"
    THEN [config |-> UpdateScope(cfg, out.ProjectID, out.EnvironmentID), err |-> Nil]
    ELSE [config |-> cfg, err |-> Nil]

\* fetchAndSetScope with the response `out` of GET /v1/api-key/scope.
fetchAndSetScope(cfg, out) ==
    IF out.kind = "network"
    THEN [config |-> cfg,
          err |-> IF ~HasScope(cfg)
                  THEN [type |-> "error",
                        Message |-> <<"failed to fetch API key scope: ", "network", ScopeAdvice>>]
                  ELSE Nil]
    ELSE IF out.kind = "status"
    THEN [config |-> cfg,
          err |-> IF ~HasScope(cfg)
                  THEN [type |-> "error",
                        Message |-> <<"failed to fetch API key scope: status ", "non-200", ScopeAdvice>>]
                  ELSE Nil]
    ELSE IF out.kind = "decode"
    THEN [config |-> cfg,
          err |-> IF ~HasScope(cfg)
                  THEN [type |-> "error",
                        Message |-> <<"failed to decode API key scope: ", "decode", "">>]
                  ELSE Nil]
    ELSE [config |-> UpdateScope(cfg, out.ProjectID, out.EnvironmentID), err |-> Nil]

\* The request fetchAndSetScope sends.
ScopeRequest == [endpoint |-> "scope", url |-> <<"/v1/api-key/scope">>, query |-> {}]

\* Mutant: a scope configured in full does not spare the fetch.
NeedsScopeFetchDespiteConfig(cfg, init) == ~init

\* Mutant: an earlier resolution does not spare the fetch.
NeedsScopeFetchDespiteInit(cfg, init) == ~HasScope(cfg)

\* Whether ensureScope has to ask the remote service.
NeedsScopeFetch(cfg, init) == ~(init \/ HasScope(cfg))

\* ensureScope: the fast path, or one fetch whose response is `out`.
ensureScope(cfg, init, out) ==
    IF ~NeedsScopeFetch(cfg, init)
    THEN [config |-> cfg, scopeInitialized |-> init, err |-> Nil, requests |-> <<>>]
    ELSE LET f == fetchAndSetScope(cfg, out)
         IN  IF f.err # Nil
             THEN [config |-> f.config, scopeInitialized |-> init, err |-> f.err,
                   requests |-> <<ScopeRequest>>]
             ELSE [config |-> f.config, scopeInitialized |-> TRUE, err |-> Nil,
                   requests |-> <<ScopeRequest>>]

----------------------------------------------------------------------------
(* Role inheritance: permit.go getRolePermissions *)

\* The list as collected, the duplicate-removal loop left out.
KeepDuplicates(permissions) == permissions

\* A duplicate-removal loop that keeps every string at its last occurrence.
UniqueKeepLast(permissions) ==
    LET kept == SelectSeq([i \in DOMAIN permissions |-> [at |-> i, perm |-> permissions[i]]],
                          LAMBDA e : \A j \in DOMAIN permissions :
                                         permissions[j] = e.perm => j <= e.at)
    IN  [i \in DOMAIN kept |-> kept[i].perm]

\* The duplicate-removal loop: every string kept at its first occurrence.
Unique(permissions) ==
    LET RECURSIVE Keep(_, _)
        Keep(i, acc) ==
            IF i > Len(permissions) THEN acc
            ELSE IF permissions[i] \in Range(acc) THEN Keep(i + 1, acc)
            ELSE Keep(i + 1, Append(acc, permissions[i]))
    IN  Keep(1, <<>>)

\* rolesMap[role.Key] = role for each role of the response in turn: the last
\* record of a key wins.
BuildRolesMap(data) ==
    [k \in {data[i].Key : i \in DOMAIN data} |->
        data[CHOOSE i \in DOMAIN data :
                /\ data[i].Key = k
                /\ \A j \in DOMAIN data : data[j].Key = k => j <= i]]

RECURSIVE getRolePermissions(_, _, _)
RECURSIVE InheritFrom(_, _, _, _, _)

\* A loop over role.Extends that stops after the first parent.
InheritFromFirstParent(extends, i, rolesMap, visited, permissions) ==
    IF i > Len(extends)
    THEN [permissions |-> permissions, visited |-> visited]
    ELSE LET parent == getRolePermissions(extends[i], rolesMap, visited)
         IN  [permissions |-> permissions \o parent.permissions, visited |-> parent.visited]

\* The loop over role.Extends: the visited map is shared by all the calls of
\* one top-level expansion.
InheritFrom(extends, i, rolesMap, visited, permissions) ==
    IF i > Len(extends)
    THEN [permissions |-> permissions, visited |-> visited]
    ELSE LET parent == getRolePermissions(extends[i], rolesMap, visited)
         IN  InheritFrom(extends, i + 1, rolesMap, parent.visited,
                         permissions \o parent.permissions)

getRolePermissions(roleKey, rolesMap, visited) ==
    IF roleKey \in visited
    THEN [permissions |-> <<>>, visited |-> visited]
    ELSE IF roleKey \notin DOMAIN rolesMap
    THEN [permissions |-> <<>>, visited |-> visited \cup {roleKey}]
    ELSE LET role == rolesMap[roleKey]
             all == InheritFrom(role.Extends, 1, rolesMap, visited \cup {roleKey},
                                role.Permissions)
         IN  [permissions |-> Unique(all.permissions), visited |-> all.visited]

\* A top-level expansion starts from an empty visited map.
RolePermissions(roleKey, rolesMap) == getRolePermissions(roleKey, rolesMap, {}).permissions

----------------------------------------------------------------------------
(* The permission check: permit.go CheckWithDetails *)

\* Mutant: type and action are joined without the separator.
RequiredPermissionNoSeparator(resourceType, action) == resourceType \o action

\* fmt.Sprintf("%s:%s", resourceType, action)
RequiredPermission(resourceType, action) == resourceType \o <<":">> \o action

\* Mutant: any permission ending in ":*" is taken as a wildcard for every type.
GrantsAnyTypeWildcard(perm, requiredPermission, resourceType) ==
    \/ perm = requiredPermission
    \/ (Len(perm) >= 2 /\ SubSeq(perm, Len(perm) - 1, Len(perm)) = <<":", "*">>)

\* Mutant: the universal wildcard is not recognised.
GrantsNoUniversal(perm, requiredPermission, resourceType) ==
    \/ perm = requiredPermission
    \/ perm = resourceType \o <<":", "*">>

\* Mutant: the type wildcard is not recognised.
GrantsNoTypeWildcard(perm, requiredPermission, resourceType) ==
    \/ perm = requiredPermission
    \/ perm = <<"*", ":", "*">>

\* The test applied to each permission of an expanded role.
Grants(perm, requiredPermission, resourceType) ==
    \/ perm = requiredPermission
    \/ perm = resourceType \o <<":", "*">>
    \/ perm = <<"*", ":", "*">>

\* strings.Join(keys, ", ")
JoinComma(keys) ==
    [i \in 1..(IF Len(keys) = 0 THEN 0 ELSE 2 * Len(keys) - 1) |->
        IF i % 2 = 1 THEN keys[(i + 1) \div 2] ELSE ", "]

\* The key set of the roleKeys map built from the assignments.
AssignedRoleKeys(assignments) == {assignments[i].Role : i \in DOMAIN assignments}

NoCall == [op |-> "none"]

\* A response that was never asked for (the call returned before the fetch).
NotAsked == [asked |-> FALSE, ok |-> FALSE]

\* RoleAssignments.List as CheckWithDetails calls it: the request sent.
AssignmentsRequest(cfg, userKey, tenant) ==
    [endpoint |-> "role_assignments",
     url |-> BuildFactsURL(cfg, "/role_assignments"),
     query |-> BuildQueryParams(ListParamsToMap(0, 0,
                  {<<"user", userKey>>, <<"role", "">>, <<"tenant", tenant>>,
                   <<"resource", "">>, <<"resource_instance", "">>}))]

\* Roles.List as CheckWithDetails calls it: the request sent.
RolesRequest(cfg) ==
    [endpoint |-> "roles",
     url |-> BuildSchemaURL(cfg, "/roles"),
     query |-> BuildQueryParams(ListParamsToMap(0, RolesPerPage, {<<"search", "">>}))]

\* Mutant: the loop runs over the assignments, not over the distinct keys.
RoleKeyIterationPerAssignment(assignments, order) ==
    [i \in DOMAIN assignments |-> assignments[i].Role]

\* "for roleKey := range roleKeys": each distinct assigned role key once, in
\* the order the runtime iterates the map (order: some order of all keys).
RoleKeyIteration(assignments, order) ==
    SelectSeq(order, LAMBDA k : k \in AssignedRoleKeys(assignments))

\* Mutant: an assigned key the catalog does not have ends the loop with no
\* match at all.
MatchedRolesAbsentStops(order, rolesMap, requiredPermission, resourceType) ==
    IF \E k \in Range(order) : k \notin DOMAIN rolesMap
    THEN <<>>
    ELSE SelectSeq(order,
                   LAMBDA roleKey :
                       \E perm \in Range(RolePermissions(roleKey, rolesMap)) :
                           Grants(perm, requiredPermission, resourceType))

\* Mutant: the loop over the roleKeys map ends at the first role that
\* grants.
MatchedRolesFirstOnly(order, rolesMap, requiredPermission, resourceType) ==
    LET matched == SelectSeq(order,
                             LAMBDA roleKey :
                                 \E perm \in Range(RolePermissions(roleKey, rolesMap)) :
                                     Grants(perm, requiredPermission, resourceType))
    IN  SubSeq(matched, 1, IF Len(matched) > 0 THEN 1 ELSE 0)

\* The loop over the roleKeys map, iterated in the order `order`: the keys
\* whose expansion holds a granting permission, in iteration order.
MatchedRoles(order, rolesMap, requiredPermission, resourceType) ==
    SelectSeq(order,
              LAMBDA roleKey :
                  \E perm \in Range(RolePermissions(roleKey, rolesMap)) :
                      Grants(perm, requiredPermission, resourceType))

\* The value CheckWithDetails returns, with the client state it leaves and
\* the requests it has sent.
Returned(resp, err, s, reqs) ==
    [resp |-> resp, err |-> err, config |-> s.config,
     scopeInitialized |-> s.scopeInitialized, requests |-> reqs]

\* Step 4 of CheckWithDetails: the decision, from the roles that matched.
Decision(matchedRoles, requiredPermission) ==
    [Allowed |-> Len(matchedRoles) > 0,
     Reason |-> IF Len(matchedRoles) > 0
                THEN [fmt |-> "Granted by role(s): %s", args |-> JoinComma(matchedRoles)]
                ELSE [fmt |-> "No role grants permission %s", args |-> requiredPermission],
     Debug |-> [MatchedRoles |-> matchedRoles,
                MatchedPermissions |-> [i \in 1..Len(matchedRoles) |-> requiredPermission]]]

\* Mutant: a failed fetch always degrades to a refusal, strict mode or not.
FetchFailedAlwaysLenient(cfg, what, err, s, reqs) ==
    Returned([Allowed |-> FALSE,
              Reason |-> [fmt |-> what, args |-> ErrorText(err)],
              Debug |-> Nil],
             Nil, s, reqs)

\* Mutant: in lenient mode a failed fetch lets the request through.
FetchFailedOpen(cfg, what, err, s, reqs) ==
    IF cfg.ThrowOnError
    THEN Returned(Nil, err, s, reqs)
    ELSE Returned([Allowed |-> TRUE,
                   Reason |-> [fmt |-> what, args |-> ErrorText(err)],
                   Debug |-> Nil],
                  Nil, s, reqs)

\* Mutant: in strict mode the refusal is returned along with the error.
FetchFailedWithRefusal(cfg, what, err, s, reqs) ==
    Returned([Allowed |-> FALSE,
              Reason |-> [fmt |-> what, args |-> ErrorText(err)],
              Debug |-> Nil],
             IF cfg.ThrowOnError THEN err ELSE Nil, s, reqs)

\* A List call returned err: propagate it in strict mode, else refuse with
\* the error text in the reason.
FetchFailed(cfg, what, err, s, reqs) ==
    IF cfg.ThrowOnError
    THEN Returned(Nil, err, s, reqs)
    ELSE Returned([Allowed |-> FALSE,
                   Reason |-> [fmt |-> what, args |-> ErrorText(err)],
                   Debug |-> Nil],
                  Nil, s, reqs)

\* Mutant: a user without assignments is let through.
NoAssignmentsAllowed(userKey, s, reqs) ==
    Returned([Allowed |-> TRUE,
              Reason |-> [fmt |-> "User %s has no role assignments", args |-> <<userKey>>],
              Debug |-> Nil],
             Nil, s, reqs)

\* Mutant: the catalog is fetched before the empty list is looked at.
NoAssignmentsAfterCatalog(userKey, s, reqs) ==
    Returned([Allowed |-> FALSE,
              Reason |-> [fmt |-> "User %s has no role assignments", args |-> <<userKey>>],
              Debug |-> Nil],
             Nil, s, Append(reqs, RolesRequest(s.config)))

\* The assignment list came back empty.
NoAssignments(userKey, s, reqs) ==
    Returned([Allowed |-> FALSE,
              Reason |-> [fmt |-> "User %s has no role assignments", args |-> <<userKey>>],
              Debug |-> Nil],
             Nil, s, reqs)

\* CheckWithDetails after ensureScope has returned s without error.
CheckScoped(cfg, s, user, action, resource, net, aReq, rReq) ==
    IF ~net.assignments.ok
    THEN FetchFailed(cfg, "Error fetching role assignments: %v", net.assignments.err,
                     s, Append(s.requests, aReq))
    ELSE IF Len(net.assignments.data) = 0
    THEN NoAssignments(user.Key, s, Append(s.requests, aReq))
    ELSE IF ~net.roles.ok
    THEN FetchFailed(cfg, "Error fetching roles: %v", net.roles.err,
                     s, s.requests \o <<aReq, rReq>>)
    ELSE Returned(Decision(MatchedRoles(RoleKeyIteration(net.assignments.data, net.order),
                                        BuildRolesMap(net.roles.data),
                                        RequiredPermission(resource.Type, action),
                                        resource.Type),
                           RequiredPermission(resource.Type, action)),
                  Nil, s, s.requests \o <<aReq, rReq>>)

\* Mutant: the error of ensureScope is dropped and the check goes on.
CheckAfterScopeIgnoringError(cfg, s, user, action, resource, net) ==
    CheckScoped(cfg, s, user, action, resource,
                [net EXCEPT !.assignments = [asked |-> TRUE, ok |-> TRUE, data |-> <<>>]],
                AssignmentsRequest(s.config, user.Key, resource.Tenant),
                RolesRequest(s.config))

\* Mutant: a resource given with an instance key is checked as the type
\* "<type>/<key>".
CheckAfterScopeKeyedType(cfg, s, user, action, resource, net) ==
    IF s.err # Nil
    THEN Returned(Nil, s.err, s, s.requests)
    ELSE CheckScoped(cfg, s, user, action,
                     [resource EXCEPT !.Type = IF resource.Key = "" THEN @
                                               ELSE @ \o <<"/", resource.Key>>],
                     net, AssignmentsRequest(s.config, user.Key, resource.Tenant),
                     RolesRequest(s.config))

\* CheckWithDetails once ensureScope has returned s.
CheckAfterScope(cfg, s, user, action, resource, net) ==
    IF s.err # Nil
    THEN Returned(Nil, s.err, s, s.requests)
    ELSE CheckScoped(cfg, s, user, action, resource, net,
                     AssignmentsRequest(s.config, user.Key, resource.Tenant),
                     RolesRequest(s.config))

\* CheckWithDetails(ctx, user, action, resource) on a client in state
\* (cfg, init), given the remote responses net = [scope, assignments, roles]
\* and the iteration order net.order of the roleKeys map.
CheckWithDetails(cfg, init, user, action, resource, net) ==
    CheckAfterScope(cfg, ensureScope(cfg, init, net.scope), user, action, resource, net)

\* Mutant: an error of the evaluation is reported as access denied.
CheckAndThrowMasksError(cfg, init, user, action, resource, net) ==
    LET r == CheckWithDetails(cfg, init, user, action, resource, net)
    IN  [r EXCEPT !.resp = Nil,
                  !.err = IF r.err # Nil \/ ~r.resp.Allowed
                          THEN AccessDeniedError(<<"Access denied: User ", user.Key,
                                                   " is not allowed to perform ", action,
                                                   " on ", resource.Type>>)
                          ELSE Nil]

\* CheckAndThrow: the same evaluation; an error is returned as it is, a
\* refusal becomes the access-denied error.
CheckAndThrow(cfg, init, user, action, resource, net) ==
    LET r == CheckWithDetails(cfg, init, user, action, resource, net)
    IN  [r EXCEPT !.resp = Nil,
                  !.err = IF r.err # Nil THEN r.err
                          ELSE IF ~r.resp.Allowed
                          THEN AccessDeniedError(<<"Access denied: User ", user.Key,
                                                   " is not allowed to perform ", action,
                                                   " on ", resource.Type>>)
                          ELSE Nil]

----------------------------------------------------------------------------
(* The effective permissions of a user: permit.go GetPermissions *)

\* RoleAssignments.List as GetPermissions calls it: the request sent.
PermissionsRequest(cfg, request) ==
    [endpoint |-> "role_assignments",
     url |-> BuildFactsURL(cfg, "/role_assignments"),
     query |-> BuildQueryParams(ListParamsToMap(0, 0,
                  {<<"user", request.User>>, <<"role", "">>, <<"tenant", request.Tenant>>,
                   <<"resource", request.Resource>>, <<"resource_instance", "">>}))]

\* &models.GetPermissionsResponse{Roles: []string{}, Permissions: []string{}}
NoPermissions == [Roles |-> <<>>, Permissions |-> <<>>]

\* Mutant: a failed fetch gives the empty response in strict mode too.
PermissionsFetchFailedAlwaysLenient(cfg, err, s, reqs) ==
    Returned(NoPermissions, Nil, s, reqs)

\* A List call of GetPermissions returned err: propagate it in strict mode,
\* else answer with the empty response.
PermissionsFetchFailed(cfg, err, s, reqs) ==
    IF cfg.ThrowOnError
    THEN Returned(Nil, err, s, reqs)
    ELSE Returned(NoPermissions, Nil, s, reqs)

\* Mutant: only what the assigned roles declare themselves is collected.
AllPermissionsDeclaredOnly(roleKeys, rolesMap) ==
    UNION {Range(rolesMap[roleKey].Permissions) : roleKey \in roleKeys \cap DOMAIN rolesMap}

\* The key set of the allPermissions map: every string of the expansion of
\* every assigned role key.
AllPermissions(roleKeys, rolesMap) ==
    UNION {Range(RolePermissions(roleKey, rolesMap)) : roleKey \in roleKeys}

\* Mutant: wildcard permissions are left out of the list.
PermissionIterationNoWildcards(permissions, order) ==
    SelectSeq(order, LAMBDA perm : perm \in permissions /\ perm[Len(perm)] # "*")

\* "for perm := range allPermissions": the strings of the map, in the order
\* the runtime iterates it (order: some order of all permission strings).
PermissionIteration(permissions, order) == SelectSeq(order, LAMBDA perm : perm \in permissions)

\* GetPermissions after ensureScope has returned s without error.
PermissionsScoped(cfg, s, request, net, aReq, rReq) ==
    IF ~net.assignments.ok
    THEN PermissionsFetchFailed(cfg, net.assignments.err, s, Append(s.requests, aReq))
    ELSE IF Len(net.assignments.data) = 0
    THEN Returned(NoPermissions, Nil, s, Append(s.requests, aReq))
    ELSE IF ~net.roles.ok
    THEN PermissionsFetchFailed(cfg, net.roles.err, s, s.requests \o <<aReq, rReq>>)
    ELSE Returned([Roles |-> RoleKeyIteration(net.assignments.data, net.order),
                   Permissions |->
                       PermissionIteration(
                           AllPermissions(AssignedRoleKeys(net.assignments.data),
                                          BuildRolesMap(net.roles.data)),
                           net.permOrder)],
                  Nil, s, s.requests \o <<aReq, rReq>>)

\* GetPermissions(ctx, request) on a client in state (cfg, init), given the
\* remote responses net and the iteration orders net.order of the roleKeys
\* map and net.permOrder of the allPermissions map.
GetPermissions(cfg, init, request, net) ==
    LET s == ensureScope(cfg, init, net.scope)
    IN  IF s.err # Nil
        THEN Returned(Nil, s.err, s, s.requests)
        ELSE PermissionsScoped(cfg, s, request, net,
                               PermissionsRequest(s.config, request), RolesRequest(s.config))

----------------------------------------------------------------------------
(* The retrying transport: pkg/api base.go Request, doRequest, parseError *)

\* http.StatusText
StatusText(statusCode) ==
    CASE statusCode = 400 -> "Bad Request"
      [] statusCode = 404 -> "Not Found"
      [] statusCode = 500 -> "Internal Server Error"
      [] OTHER -> ""

\* Response bodies. raw is the text, valid whether it is JSON, fits whether
\* it unmarshals into the caller's result; message, error and code are the
\* fields an error response may carry.
JsonBody == [raw |-> "{}", valid |-> TRUE, fits |-> TRUE,
             message |-> "", error |-> "", code |-> ""]
ErrorBody == [raw |-> "{\"error\":\"boom\",\"code\":\"E1\"}", valid |-> TRUE, fits |-> TRUE,
              message |-> "", error |-> "boom", code |-> "E1"]
HtmlBody == [raw |-> "<html>", valid |-> FALSE, fits |-> FALSE,
             message |-> "", error |-> "", code |-> ""]
EmptyBody == [raw |-> "", valid |-> FALSE, fits |-> FALSE,
              message |-> "", error |-> "", code |-> ""]

parseError(statusCode, body) ==
    IF ~body.valid
    THEN PermisError(body.raw, "", statusCode)
    ELSE LET m1 == IF body.message = "" THEN body.error ELSE body.message
             message == IF m1 = "" THEN StatusText(statusCode) ELSE m1
         IN  PermisError(message, body.code, statusCode)

ErrMarshal == [type |-> "error", Message |-> "failed to marshal request body: unsupported type"]
ErrRead == [type |-> "error", Message |-> "failed to read response body: unexpected EOF"]
ErrUnmarshal == [type |-> "error", Message |-> "failed to unmarshal response: invalid character"]
ErrCanceled == [type |-> "error", Message |-> "context canceled"]

\* One HTTP exchange as the client sees it: HTTPClient.Do fails, reading the
\* body fails, or a response arrives.
Exchange(kind, status, body) == [kind |-> kind, status |-> status, body |-> body]

\* doRequest: the error it returns, and whether it reached HTTPClient.Do.
doRequest(body, result, out) ==
    IF body = "unmarshalable" THEN [err |-> ErrMarshal, sent |-> FALSE]
    ELSE IF out.kind = "network" THEN [err |-> ErrNetwork, sent |-> TRUE]
    ELSE IF out.kind = "read" THEN [err |-> ErrRead, sent |-> TRUE]
    ELSE IF out.status >= 400 THEN [err |-> parseError(out.status, out.body), sent |-> TRUE]
    ELSE IF result /\ out.body.raw # "" /\ ~out.body.fits
         THEN [err |-> ErrUnmarshal, sent |-> TRUE]
    ELSE [err |-> Nil, sent |-> TRUE]

\* Mutant: a backoff that grows linearly.
BackoffLinear(attempt) == attempt * 100

\* time.Duration(attempt*attempt) * 100 * time.Millisecond, in milliseconds
Backoff(attempt) == attempt * attempt * 100

\* Mutant: the loop admits one more round.
LoopConditionOneMore(attempt, cfg) == attempt <= cfg.RetryAttempts + 1

\* The loop condition of Request.
LoopCondition(attempt, cfg) == attempt <= cfg.RetryAttempts

\* Mutant: only 404 counts as a client error.
IsClientErrorNotFoundOnly(err) ==
    err.type = "PermisError" /\ err.StatusCode = 404

\* "Don't retry client errors"
IsClientError(err) ==
    err.type = "PermisError" /\ err.StatusCode >= 400 /\ err.StatusCode < 500

\* Request returns err, its counter at attempt.
RequestReturns(frame, attempt, err, log) ==
    /\ call' = [frame EXCEPT !.pc = "done", !.attempt = attempt, !.lastErr = err]
    /\ ret' = [resp |-> Nil, err |-> err]
    /\ trace' = log

\* The loop of Request comes round with the counter at attempt: it returns
\* lastErr when the condition fails, enters the backoff select (time.After
\* started) when attempt > 0, and calls doRequest at once otherwise.
RequestLoop(frame, attempt, lastErr, log) ==
    IF ~LoopCondition(attempt, config)
    THEN RequestReturns(frame, attempt, lastErr, log)
    ELSE IF attempt > 0
    THEN /\ call' = [frame EXCEPT !.pc = "select", !.timer = FALSE,
                                   !.attempt = attempt, !.lastErr = lastErr]
         /\ trace' = Append(log, [ev |-> "wait", ms |-> Backoff(attempt)])
         /\ UNCHANGED ret
    ELSE /\ call' = [frame EXCEPT !.pc = "doRequest", !.attempt = attempt, !.lastErr = lastErr]
         /\ trace' = log
         /\ UNCHANGED ret

\* What one exchange with the server can come to.
ServerExchanges ==
    {Exchange("network", 0, EmptyBody), Exchange("read", 0, EmptyBody),
     Exchange("response", 200, JsonBody), Exchange("response", 200, HtmlBody),
     Exchange("response", 204, EmptyBody), Exchange("response", 304, EmptyBody),
     Exchange("response", 400, ErrorBody),
     Exchange("response", 404, JsonBody), Exchange("response", 499, HtmlBody),
     Exchange("response", 500, JsonBody)}

\* The exchanges open to doRequest: none is reached when the body does not
\* marshal, and HTTPClient.Do fails at once on a cancelled context.
Exchanges(body, c) ==
    IF body = "unmarshalable" THEN {Exchange("none", 0, EmptyBody)}
    ELSE IF c = "cancelled" THEN {Exchange("network", 0, EmptyBody)}
    ELSE ServerExchanges

RequestBodies == {"none", "json", "unmarshalable"}

\* Request is called: var lastErr error; attempt := 0.
RequestCall ==
    /\ call = NoCall
    /\ \E body \in RequestBodies, result \in BOOLEAN :
           RequestLoop([op |-> "Request", body |-> body, result |-> result,
                        pc |-> "start", timer |-> FALSE, attempt |-> 0,
                        lastErr |-> Nil], 0, Nil, <<>>)
    /\ UNCHANGED <<config, scopeInitialized, remote, callers, scopeMu, requests, ctx>>

\* One round of the loop from doRequest on: success returns nil, a client
\* error returns at once, any other error goes round with attempt + 1.
RequestAttempt ==
    /\ call.op = "Request"
    /\ call.pc = "doRequest"
    /\ \E out \in Exchanges(call.body, ctx) :
           LET r == doRequest(call.body, call.result, out)
               log == Append(trace, [ev |-> "attempt", index |-> call.attempt,
                                     sent |-> r.sent, out |-> out, err |-> r.err])
           IN  IF r.err = Nil THEN RequestReturns(call, call.attempt, Nil, log)
               ELSE IF IsClientError(r.err)
                    THEN RequestReturns(call, call.attempt, r.err, log)
               ELSE RequestLoop(call, call.attempt + 1, r.err, log)
    /\ UNCHANGED <<config, scopeInitialized, remote, callers, scopeMu, requests, ctx>>

\* Mutant: a select that is blocked sleeps through a cancellation.
WokenIgnoringCancel(event) == IF event = "cancel" THEN "blocked" ELSE "doRequest"

\* A goroutine blocked in the select is woken by the first of its two
\* channels that becomes ready and takes that case: where Request goes on.
Woken(event) == IF event = "cancel" THEN "ctxdone" ELSE "doRequest"

\* The select statement polls its channels: a case that is ready is taken
\* (either, when both are), and the goroutine blocks when none is.
RequestSelect ==
    /\ call.op = "Request"
    /\ call.pc = "select"
    /\ \/ /\ ctx = "cancelled"
          /\ call' = [call EXCEPT !.pc = "ctxdone"]
       \/ /\ call.timer
          /\ call' = [call EXCEPT !.pc = "doRequest"]
       \/ /\ ctx = "live" /\ ~call.timer
          /\ call' = [call EXCEPT !.pc = "blocked"]
    /\ UNCHANGED <<config, scopeInitialized, remote, callers, scopeMu, requests, ctx, ret, trace>>

\* The timer of time.After(backoff) fires: before the select has polled (the
\* goroutine was delayed for the whole backoff), or while it is blocked,
\* which wakes it.
BackoffTimerFires ==
    /\ call.op = "Request"
    /\ call.pc \in {"select", "blocked"}
    /\ ~call.timer
    /\ call' = [call EXCEPT !.timer = TRUE,
                            !.pc = IF @ = "blocked" THEN Woken("timer") ELSE @]
    /\ UNCHANGED <<config, scopeInitialized, remote, callers, scopeMu, requests, ctx, ret, trace>>

\* case <-ctx.Done(): return ctx.Err()
RequestBackoffCancelled ==
    /\ call.op = "Request"
    /\ call.pc = "ctxdone"
    /\ call' = [call EXCEPT !.pc = "done"]
    /\ ret' = [resp |-> Nil, err |-> ErrCanceled]
    /\ UNCHANGED <<config, scopeInitialized, remote, callers, scopeMu, requests, ctx, trace>>

\* The caller cancels the context of a running Request; a Request blocked in
\* the select is woken. The trace notes where Request was.
CtxCancel ==
    /\ call.op = "Request"
    /\ call.pc # "done"
    /\ ctx = "live"
    /\ ctx' = "cancelled"
    /\ call' = [call EXCEPT !.pc = IF @ = "blocked" THEN Woken("cancel") ELSE @]
    /\ trace' = Append(trace, [ev |-> "cancel", pc |-> call.pc])
    /\ UNCHANGED <<config, scopeInitialized, remote, callers, scopeMu, requests, ret>>

----------------------------------------------------------------------------
(* Request headers: pkg/api base.go doRequest, permit.go fetchAndSetScope *)

\* textproto.CanonicalMIMEHeaderKey, which http.Header.Set applies to the
\* key: the first letter and each letter after a hyphen in upper case, the
\* rest in lower case.
CanonicalMIMEHeaderKey(key) ==
    CASE key \in {"authorization", "Authorization", "AUTHORIZATION"} -> "Authorization"
      [] key \in {"content-type", "Content-Type"} -> "Content-Type"
      [] key \in {"x-trace", "X-Trace"} -> "X-Trace"
      [] OTHER -> key

\* req.Header.Set(key, value) on the header h, a set of <<key, value>>; a
\* value is a sequence of the strings it is put together from.
HeaderSet(h, key, value) ==
    {e \in h : e[1] # CanonicalMIMEHeaderKey(key)}
        \cup {<<CanonicalMIMEHeaderKey(key), value>>}

\* "Bearer " + c.config.Token
Bearer(cfg) == <<"Bearer ", cfg.Token>>

\* The two headers both doRequest and fetchAndSetScope set.
BaseHeaders(cfg) ==
    HeaderSet(HeaderSet({}, "Content-Type", <<"application/json">>), "Authorization",
              Bearer(cfg))

\* The headers of a request of doRequest: the two base headers, then each
\* entry of CustomHeaders, in the order the runtime iterates the map.
RECURSIVE DoRequestHeaders(_, _)
DoRequestHeaders(cfg, order) ==
    IF order = <<>> THEN BaseHeaders(cfg)
    ELSE HeaderSet(DoRequestHeaders(cfg, SubSeq(order, 1, Len(order) - 1)),
                   order[Len(order)][1], order[Len(order)][2])

\* doRequest sends a request.
DoRequestSend ==
    /\ Len(requests) < MaxFetches
    /\ \E order \in Orders(config.CustomHeaders) :
           requests' = Append(requests,
                              [endpoint |-> "api", custom |-> order,
                               headers |-> DoRequestHeaders(config, order)])
    /\ UNCHANGED <<config, scopeInitialized, remote, call, ret, ctx, trace, callers, scopeMu>>

\* fetchAndSetScope sends its request.
ScopeSend ==
    /\ Len(requests) < MaxFetches
    /\ requests' = Append(requests,
                          [endpoint |-> "scope", custom |-> <<>>,
                           headers |-> BaseHeaders(config)])
    /\ UNCHANGED <<config, scopeInitialized, remote, call, ret, ctx, trace, callers, scopeMu>>

----------------------------------------------------------------------------
(* What the remote service may answer *)

\* Responses of GET /v1/api-key/scope, when ensureScope asks.
ScopeOutcomes(cfg, init) ==
    IF NeedsScopeFetch(cfg, init)
    THEN {[kind |-> "ok", ProjectID |-> remote.scope.ProjectID,
           EnvironmentID |-> remote.scope.EnvironmentID]}
         \cup {[kind |-> k] : k \in remote.scopeFaults}
    ELSE {[kind |-> "none"]}

\* Results of RoleAssignments.List: a list of assignments, or an error.
AssignmentOutcomes(lists) ==
    {[asked |-> TRUE, ok |-> TRUE, data |-> [i \in DOMAIN l |-> [Role |-> l[i]]]] : l \in lists}
    \cup {[asked |-> TRUE, ok |-> FALSE, err |-> e] : e \in remote.faults}

\* Results of Roles.List: the catalog, or an error.
RolesOutcomes ==
    {[asked |-> TRUE, ok |-> TRUE, data |-> remote.roles]}
    \cup {[asked |-> TRUE, ok |-> FALSE, err |-> e] : e \in remote.faults}

----------------------------------------------------------------------------
(* Scope resolution under concurrent callers: permit.go ensureScope, step   *)
(* by step. Init, GetScope, CheckWithDetails, GetPermissions and SyncUser  *)
(* all enter through it.                                                   *)

Goroutines == 1..MaxCallers

\* scopeMu when no goroutine holds it.
Unlocked == 0

\* A goroutine that is not inside ensureScope and has not called it yet.
Idle ==
    [pc |-> "idle", before |-> Nil, hb |-> FALSE, out |-> [kind |-> "none"],
     returned |-> FALSE, err |-> Nil]

\* fetchAndSetScope has stored a fetched scope (UpdateScope, line 587).
Written == scopeInitialized \/ \E g \in Goroutines : callers[g].pc = "init"

\* The values the unsynchronised read of line 525 can yield for goroutine g.
\* The writes of lines 542 and 587 are made under scopeMu and the read is
\* not: it races with them, and a goroutine that has not taken scopeMu
\* since may still see the client as it was before.
FastPathReads(g) ==
    {~NeedsScopeFetch(config, scopeInitialized)}
        \cup (IF Written /\ ~callers[g].hb THEN {FALSE} ELSE {})

\* ensureScope returns err to goroutine g; the deferred Unlock runs if g
\* holds scopeMu.
EnsureScopeReturns(g, err, fields) ==
    /\ callers' = [callers EXCEPT ![g] = [fields EXCEPT !.pc = "idle", !.returned = TRUE,
                                                       !.err = err]]
    /\ scopeMu' = IF scopeMu = g THEN Unlocked ELSE scopeMu

\* Goroutine g calls ensureScope.
EnsureScopeCall(g) ==
    /\ callers[g].pc = "idle"
    /\ Len(requests) < MaxFetches
    /\ callers' = [callers EXCEPT ![g] =
           [pc |-> "fast",
            before |-> [config |-> config, scopeInitialized |-> scopeInitialized],
            hb |-> callers[g].hb, out |-> [kind |-> "none"],
            returned |-> FALSE, err |-> Nil]]
    /\ UNCHANGED <<config, scopeInitialized, remote, call, ret, requests, ctx, trace, scopeMu>>

\* Line 525, the fast path: return nil, or go on to Lock.
EnsureScopeFastPath(g) ==
    /\ callers[g].pc = "fast"
    /\ \E known \in FastPathReads(g) :
           IF known
           THEN EnsureScopeReturns(g, Nil, callers[g])
           ELSE /\ callers' = [callers EXCEPT ![g].pc = "lock"]
                /\ UNCHANGED scopeMu
    /\ UNCHANGED <<config, scopeInitialized, remote, call, ret, requests, ctx, trace>>

\* Mutant: Lock() succeeds while another goroutine holds the mutex.
EnsureScopeLockBarging(g) ==
    /\ callers[g].pc = "lock"
    /\ scopeMu' = g
    /\ callers' = [callers EXCEPT ![g].pc = "check", ![g].hb = @ \/ Written]
    /\ UNCHANGED <<config, scopeInitialized, remote, call, ret, requests, ctx, trace>>

\* Line 529: c.scopeMu.Lock() succeeds once the mutex is free. What was
\* written under the mutex before is visible to g from here on.
EnsureScopeLock(g) ==
    /\ callers[g].pc = "lock"
    /\ scopeMu = Unlocked
    /\ scopeMu' = g
    /\ callers' = [callers EXCEPT ![g].pc = "check", ![g].hb = @ \/ Written]
    /\ UNCHANGED <<config, scopeInitialized, remote, call, ret, requests, ctx, trace>>

\* Line 533, the double check under the mutex.
EnsureScopeDoubleCheck(g) ==
    /\ callers[g].pc = "check"
    /\ IF ~NeedsScopeFetch(config, scopeInitialized)
       THEN EnsureScopeReturns(g, Nil, callers[g])
       ELSE /\ callers' = [callers EXCEPT ![g].pc = "fetch"]
            /\ UNCHANGED scopeMu
    /\ UNCHANGED <<config, scopeInitialized, remote, call, ret, requests, ctx, trace>>

\* Line 538: fetchAndSetScope, and the return of its error.
EnsureScopeFetch(g) ==
    /\ callers[g].pc = "fetch"
    /\ \E out \in ScopeOutcomes(config, scopeInitialized) :
           LET f == fetchAndSetScope(config, out)
               fields == [callers[g] EXCEPT !.out = out]
           IN  /\ requests' = Append(requests, ScopeRequest)
               /\ config' = f.config
               /\ IF f.err # Nil
                  THEN EnsureScopeReturns(g, f.err, fields)
                  ELSE /\ callers' = [callers EXCEPT ![g] =
                                         [fields EXCEPT !.pc = "init", !.hb = TRUE]]
                       /\ UNCHANGED scopeMu
    /\ UNCHANGED <<scopeInitialized, remote, call, ret, ctx, trace>>

\* Lines 542-543: c.scopeInitialized = true; return nil.
EnsureScopeInitialized(g) ==
    /\ callers[g].pc = "init"
    /\ scopeInitialized' = TRUE
    /\ EnsureScopeReturns(g, Nil, callers[g])
    /\ UNCHANGED <<config, remote, call, ret, requests, ctx, trace>>

----------------------------------------------------------------------------
(* Actions: the client's API calls *)

\* The state after the call op(user, action, resource) has consumed the
\* responses net and returned r.
Called(op, user, action, resource, net, r) ==
    /\ call' = [op |-> op, user |-> user, action |-> action, resource |-> resource,
                net |-> net,
                before |-> [config |-> config, scopeInitialized |-> scopeInitialized]]
    /\ ret' = [resp |-> r.resp, err |-> r.err]
    /\ requests' = r.requests
    /\ config' = r.config
    /\ scopeInitialized' = r.scopeInitialized
    /\ UNCHANGED <<remote, callers, scopeMu, ctx, trace>>

\* P(net) for some responses of the remote service to the fetches a check
\* reaches on a client in the current state: a fetch it never reaches is
\* NotAsked. net.order is the order in which the runtime iterates the
\* roleKeys map.
WithResponses(lists, P(_)) ==
    \E so \in ScopeOutcomes(config, scopeInitialized) :
    \E ao \in IF ensureScope(config, scopeInitialized, so).err = Nil
              THEN AssignmentOutcomes(lists) ELSE {NotAsked} :
    \E ro \in IF ao.ok /\ Len(ao.data) > 0 THEN RolesOutcomes ELSE {NotAsked} :
    \E order \in IF ro.ok THEN Orders(AssignedRoleKeys(ao.data)) ELSE {<<>>} :
        P([scope |-> so, assignments |-> ao, roles |-> ro, order |-> order])

\* P(user, action, resource, net) for some arguments drawn from dom and some
\* responses to the fetches the check reaches.
WithCheckInputs(dom, P(_, _, _, _)) ==
    \E userKey \in dom.users, action \in dom.actions,
       rtype \in dom.types, tenant \in dom.tenants :
        WithResponses(dom.lists, LAMBDA net :
            P([Key |-> userKey], action, [Type |-> rtype, Key |-> "", Tenant |-> tenant], net))

\* A call of CheckWithDetails with arguments drawn from dom. Calls are
\* synchronous and keep nothing but the scope between them, so each call is
\* explored from every client state the initial condition provides.
CheckWithDetailsCall(dom) ==
    /\ call = NoCall
    /\ WithCheckInputs(dom, LAMBDA user, action, resource, net :
           Called("CheckWithDetails", user, action, resource, net,
                  CheckWithDetails(config, scopeInitialized, user, action, resource, net)))

\* A call of CheckWithDetails with a user and a resource drawn from dom in
\* full: key and attributes of the user; type, instance key, tenant and
\* attributes of the resource.
CheckWithDetailsOn(dom) ==
    /\ call = NoCall
    /\ \E user \in dom.users, action \in dom.actions, resource \in dom.resources :
           WithResponses(dom.lists, LAMBDA net :
               Called("CheckWithDetails", user, action, resource, net,
                      CheckWithDetails(config, scopeInitialized, user, action, resource, net)))

\* A call of CheckAndThrow with arguments drawn from dom.
CheckAndThrowCall(dom) ==
    /\ call = NoCall
    /\ WithCheckInputs(dom, LAMBDA user, action, resource, net :
           Called("CheckAndThrow", user, action, resource, net,
                  CheckAndThrow(config, scopeInitialized, user, action, resource, net)))

\* A call of GetPermissions with a request drawn from dom.
GetPermissionsCall(dom) ==
    /\ call = NoCall
    /\ \E user \in dom.users, tenant \in dom.tenants, resource \in dom.resources :
           WithResponses(dom.lists, LAMBDA net :
               \E permOrder \in IF net.roles.ok
                                 THEN Orders(UNION {Range(remote.roles[i].Permissions) :
                                                       i \in DOMAIN remote.roles})
                                 ELSE {<<>>} :
                   LET request == [User |-> user, Tenant |-> tenant, Resource |-> resource]
                       responses == [scope |-> net.scope, assignments |-> net.assignments,
                                     roles |-> net.roles, order |-> net.order,
                                     permOrder |-> permOrder]
                       r == GetPermissions(config, scopeInitialized, request, responses)
                   IN  /\ call' = [op |-> "GetPermissions", request |-> request,
                                   net |-> responses,
                                   before |-> [config |-> config,
                                               scopeInitialized |-> scopeInitialized]]
                       /\ ret' = [resp |-> r.resp, err |-> r.err]
                       /\ requests' = r.requests
                       /\ config' = r.config
                       /\ scopeInitialized' = r.scopeInitialized
                       /\ UNCHANGED <<remote, callers, scopeMu, ctx, trace>>)

----------------------------------------------------------------------------
(* BulkCheck: permit.go BulkCheck over models.CheckRequest *)

\* Values of an interface{} field, tagged with their dynamic type.
StringValue(v) == [t |-> "string", v |-> v]
IntValue(n) == [t |-> "int", n |-> n]
MapValue(m) == [t |-> "map", m |-> m]
NoValue == [t |-> "nil"]

\* v.(string), comma-ok form, for an opaque key: the string, or "".
KeyString(v) == IF v.t = "string" THEN v.v ELSE ""

\* v.(string), comma-ok form, for a resource type: the string, or "".
TypeString(v) == IF v.t = "string" THEN v.v ELSE <<>>

\* The type switch on check.Resource, then the tenant override.
ResourceOf(check) ==
    LET r == check.Resource
        resource ==
            IF r.t = "string" THEN [Type |-> r.v, Key |-> "", Tenant |-> ""]
            ELSE IF r.t = "map"
            THEN [Type |-> TypeString(r.m.type), Key |-> KeyString(r.m.key),
                  Tenant |-> KeyString(r.m.tenant)]
            ELSE [Type |-> <<>>, Key |-> "", Tenant |-> ""]
    IN  IF check.Tenant # "" THEN [resource EXCEPT !.Tenant = check.Tenant] ELSE resource

\* check.User.(string) panics unless the dynamic type is string.
UserAssertionPanics(check) == check.User.t # "string"

\* results[i] after CheckWithDetails returned r.
BulkCheckResult(check, r) ==
    [Request |-> check,
     Response |-> IF r.err # Nil
                  THEN [Allowed |-> FALSE,
                        Reason |-> [fmt |-> "%s", args |-> ErrorText(r.err)],
                        Debug |-> Nil]
                  ELSE r.resp]

\* BulkCheck is called: results := make([]BulkCheckResult, len(checks)).
BulkCheckCall(batches) ==
    /\ call = NoCall
    /\ \E checks \in batches :
           call' = [op |-> "BulkCheck", checks |-> checks, pc |-> "loop", i |-> 1,
                    results |-> <<>>, items |-> <<>>,
                    before |-> [config |-> config, scopeInitialized |-> scopeInitialized]]
    /\ UNCHANGED <<config, scopeInitialized, remote, callers, scopeMu, ret, requests, ctx, trace>>

\* One round of the loop: the conversions, CheckWithDetails, results[i].
BulkCheckItem(lists) ==
    /\ call.op = "BulkCheck"
    /\ call.pc = "loop"
    /\ call.i <= Len(call.checks)
    /\ LET check == call.checks[call.i] IN
       IF UserAssertionPanics(check)
       THEN /\ call' = [call EXCEPT !.pc = "panic"]
            /\ UNCHANGED <<config, scopeInitialized, requests>>
       ELSE WithResponses(lists, LAMBDA net :
                LET r == CheckWithDetails(config, scopeInitialized, [Key |-> check.User.v],
                                          check.Action, ResourceOf(check), net)
                IN  /\ call' = [call EXCEPT
                                   !.i = @ + 1,
                                   !.results = Append(@, BulkCheckResult(check, r)),
                                   !.items = Append(@, [net |-> net, config |-> config,
                                                        scopeInitialized |-> scopeInitialized])]
                    /\ config' = r.config
                    /\ scopeInitialized' = r.scopeInitialized
                    /\ requests' = requests \o r.requests)
    /\ UNCHANGED <<remote, callers, scopeMu, ret, ctx, trace>>

\* The loop is over: return &BulkCheckResponse{Results: results}, nil.
BulkCheckReturn ==
    /\ call.op = "BulkCheck"
    /\ call.pc = "loop"
    /\ call.i > Len(call.checks)
    /\ call' = [call EXCEPT !.pc = "done"]
    /\ ret' = [resp |-> [Results |-> call.results], err |-> Nil]
    /\ UNCHANGED <<config, scopeInitialized, remote, callers, scopeMu, requests, ctx, trace>>

----------------------------------------------------------------------------
(* Specification Spec: checks against every small role catalog, the remote  *)
(* service answering every fetch.                                          *)

RoleKeys == {"editor", "viewer"}
KeyOrder == <<"editor", "viewer">>

EvalTypes == {<<"d">>, <<"e">>}
EvalActions == {<<"r">>, <<"w">>}

\* Permission strings roles may declare: exact, type wildcard, universal
\* wildcard.
PermPool == {<<"d", ":", "r">>, <<"d", ":", "*">>, <<"*", ":", "*">>}

NoDupSeqsUpTo(S, n) == {s \in SeqsUpTo(S, n) : NoDup(s)}

RoleReads(key) ==
    {[Key |-> key, Permissions |-> ps, Extends |-> es] :
        ps \in SeqsUpTo(PermPool, MaxPerms), es \in NoDupSeqsUpTo(RoleKeys, MaxExtends)}

Absent == [Key |-> ""]

\* Catalogs: each role key present with some definition, or absent.
Catalogs ==
    {SelectSeq(f, LAMBDA r : r # Absent) :
        f \in {g \in [DOMAIN KeyOrder -> UNION {RoleReads(k) : k \in RoleKeys} \cup {Absent}] :
                  \A i \in DOMAIN KeyOrder : g[i] = Absent \/ g[i].Key = KeyOrder[i]}}

EvalDom ==
    [users |-> {"u1"}, actions |-> EvalActions, types |-> EvalTypes, tenants |-> {""},
     lists |-> SeqsUpTo(RoleKeys, MaxAssign)]

Init ==
    /\ config = [ThrowOnError |-> FALSE, ProjectID |-> "p1", EnvironmentID |-> "e1",
                 RetryAttempts |-> 3]
    /\ scopeInitialized = FALSE
    /\ remote \in {[roles |-> c, scope |-> [ProjectID |-> "p1", EnvironmentID |-> "e1"],
                    faults |-> {}, scopeFaults |-> {}] : c \in Catalogs}
    /\ call = NoCall
    /\ ret = [resp |-> Nil, err |-> Nil]
    /\ requests = <<>>
    /\ ctx = "live"
    /\ trace = <<>>
    /\ callers = <<>>
    /\ scopeMu = Unlocked

Check == CheckWithDetailsCall(EvalDom)

Next == Check

Spec == Init /\ [][Next]_vars

----------------------------------------------------------------------------
(* Specification SpecErr: checks on the catalog of the editor/viewer        *)
(* scenario, in strict and in lenient mode, with and without a configured  *)
(* scope, the remote service failing any fetch.                            *)

ScenarioCatalog ==
    <<[Key |-> "editor", Permissions |-> <<<<"d", ":", "w">>>>, Extends |-> <<"viewer">>],
      [Key |-> "viewer", Permissions |-> <<<<"d", ":", "r">>>>, Extends |-> <<>>]>>

\* A catalog whose roles came without "permissions" and "extends": both
\* fields are omitempty and decode to nil slices. The empty catalog <<>> is
\* what a 200 with an empty body leaves in the result.
BareCatalog ==
    <<[Key |-> "editor", Permissions |-> <<>>, Extends |-> <<>>],
      [Key |-> "", Permissions |-> <<>>, Extends |-> <<>>]>>

ScopeFaults == {"network", "status", "decode"}

ErrDom ==
    [users |-> {"u1", ""}, actions |-> EvalActions, types |-> {<<"d">>},
     tenants |-> {"", "t1"}, lists |-> {<<>>, <<"editor">>, <<"viewer">>}]

InitErr ==
    /\ remote \in {[roles |-> c, scope |-> [ProjectID |-> b[1], EnvironmentID |-> b[2]],
                    faults |-> AllFaults, scopeFaults |-> ScopeFaults] :
                      c \in {ScenarioCatalog, BareCatalog, <<>>},
                      b \in {<<"p2", "e2">>, <<"", "">>}}
    /\ \E t \in BOOLEAN :
           \* a new client, its scope configured, not configured, or half configured
           \/ /\ scopeInitialized = FALSE
              /\ config \in {[ThrowOnError |-> t, ProjectID |-> sc[1],
                              EnvironmentID |-> sc[2], RetryAttempts |-> 3] :
                                sc \in {<<"p1", "e1">>, <<"", "">>, <<"p1", "">>}}
           \* a client whose earlier call has fetched the scope
           \/ /\ scopeInitialized = TRUE
              /\ config = [ThrowOnError |-> t, ProjectID |-> remote.scope.ProjectID,
                           EnvironmentID |-> remote.scope.EnvironmentID,
                           RetryAttempts |-> 3]
    /\ call = NoCall
    /\ ret = [resp |-> Nil, err |-> Nil]
    /\ requests = <<>>
    /\ ctx = "live"
    /\ trace = <<>>
    /\ callers = <<>>
    /\ scopeMu = Unlocked

CheckErr == CheckWithDetailsCall(ErrDom)

CheckAndThrowErr == CheckAndThrowCall(ErrDom)

NextErr == CheckErr \/ CheckAndThrowErr

SpecErr == InitErr /\ [][NextErr]_vars

----------------------------------------------------------------------------
(* Specification SpecStr: checks of arbitrary type and action strings       *)
(* against a role holding one type wildcard.                               *)

\* Characters of resource types and actions: an ordinary one and the two
\* that have a meaning in permission strings.
Alphabet == {"a", ":", "*"}

Strings == SeqsUpTo(Alphabet, MaxLen)

\* The catalog whose only role holds the permission "<type>:*".
WildcardCatalog(type) ==
    <<[Key |-> "editor", Permissions |-> <<type \o <<":", "*">>>>, Extends |-> <<>>]>>

StrDom ==
    [users |-> {"u1"}, actions |-> Strings, types |-> Strings, tenants |-> {""},
     lists |-> {<<"editor">>}]

InitStr ==
    /\ config = [ThrowOnError |-> FALSE, ProjectID |-> "p1", EnvironmentID |-> "e1",
                 RetryAttempts |-> 3]
    /\ scopeInitialized = FALSE
    /\ remote \in {[roles |-> WildcardCatalog(t),
                    scope |-> [ProjectID |-> "p1", EnvironmentID |-> "e1"],
                    faults |-> {}, scopeFaults |-> {}] : t \in Strings}
    /\ call = NoCall
    /\ ret = [resp |-> Nil, err |-> Nil]
    /\ requests = <<>>
    /\ ctx = "live"
    /\ trace = <<>>
    /\ callers = <<>>
    /\ scopeMu = Unlocked

CheckStr == CheckWithDetailsCall(StrDom)

NextStr == CheckStr

SpecStr == InitStr /\ [][NextStr]_vars

----------------------------------------------------------------------------
(* Specification SpecReq: one Request under every configured RetryAttempts, *)
(* the server and the network failing any attempt, the caller cancelling   *)
(* at any moment.                                                          *)

DefaultRetryAttempts == 3

InitReq ==
    /\ config \in {[ThrowOnError |-> FALSE, ProjectID |-> "p1", EnvironmentID |-> "e1",
                     RetryAttempts |-> n] : n \in (-1 .. MaxRetry) \cup {DefaultRetryAttempts}}
    /\ scopeInitialized = FALSE
    /\ remote = [roles |-> <<>>, scope |-> [ProjectID |-> "p1", EnvironmentID |-> "e1"],
                 faults |-> {}, scopeFaults |-> {}]
    /\ call = NoCall
    /\ ret = [resp |-> Nil, err |-> Nil]
    /\ requests = <<>>
    /\ ctx \in {"live", "cancelled"}
    /\ trace = <<>>
    /\ callers = <<>>
    /\ scopeMu = Unlocked

NextReq ==
    \/ RequestCall
    \/ RequestAttempt
    \/ RequestSelect
    \/ BackoffTimerFires
    \/ RequestBackoffCancelled
    \/ CtxCancel

SpecReq == InitReq /\ [][NextReq]_vars

----------------------------------------------------------------------------
(* Specification SpecBulk: BulkCheck over batches of CheckRequest values of *)
(* every shape the type admits, on the editor/viewer catalog, in strict    *)
(* and in lenient mode, the remote service failing any fetch.              *)

\* CheckRequest values: a type name as resource, a map as resource with the
\* request's tenant overriding the map's, a resource that is neither, a map
\* whose "type" is not a string, and a user that is not a string.
CheckRequests ==
    {[User |-> StringValue("u1"), Action |-> <<"r">>,
      Resource |-> StringValue(<<"d">>), Tenant |-> ""],
     [User |-> StringValue("u1"), Action |-> <<"w">>,
      Resource |-> MapValue([type |-> StringValue(<<"d">>), key |-> StringValue("k1"),
                             tenant |-> StringValue("t1")]),
      Tenant |-> "t2"],
     [User |-> StringValue("u1"), Action |-> <<"r">>,
      Resource |-> IntValue(7), Tenant |-> ""],
     [User |-> StringValue("u1"), Action |-> <<"r">>,
      Resource |-> MapValue([type |-> IntValue(5), key |-> NoValue,
                             tenant |-> StringValue("t1")]),
      Tenant |-> ""],
     [User |-> IntValue(42), Action |-> <<"r">>,
      Resource |-> StringValue(<<"d">>), Tenant |-> ""]}

Batches == SeqsUpTo(CheckRequests, MaxBatch)

BulkLists == {<<>>, <<"editor">>, <<"viewer">>}

InitBulk ==
    /\ config \in {[ThrowOnError |-> t, ProjectID |-> sc[1], EnvironmentID |-> sc[2],
                     RetryAttempts |-> 3] :
                       t \in BOOLEAN, sc \in {<<"p1", "e1">>, <<"", "">>}}
    /\ scopeInitialized = FALSE
    /\ remote = [roles |-> ScenarioCatalog,
                 scope |-> [ProjectID |-> "p2", EnvironmentID |-> "e2"],
                 faults |-> {ErrServer}, scopeFaults |-> {"network"}]
    /\ call = NoCall
    /\ ret = [resp |-> Nil, err |-> Nil]
    /\ requests = <<>>
    /\ ctx = "live"
    /\ trace = <<>>
    /\ callers = <<>>
    /\ scopeMu = Unlocked

BulkCall == BulkCheckCall(Batches)

BulkItem == BulkCheckItem(BulkLists)

NextBulk == BulkCall \/ BulkItem \/ BulkCheckReturn

SpecBulk == InitBulk /\ [][NextBulk]_vars

----------------------------------------------------------------------------
(* Specification SpecScope: goroutines calling ensureScope on one client,   *)
(* again and again, in every interleaving; the scope configured in full,   *)
(* in part or not at all; the scope endpoint failing or answering 200 with *)
(* a full, a partial or an empty scope.                                    *)

ScopeBodies == {<<"p2", "e2">>, <<"p2", "">>, <<"", "">>}

InitScope ==
    /\ config \in {[ThrowOnError |-> FALSE, ProjectID |-> sc[1], EnvironmentID |-> sc[2],
                     RetryAttempts |-> 3] :
                       sc \in {<<"p1", "e1">>, <<"", "">>, <<"p1", "">>}}
    /\ scopeInitialized = FALSE
    /\ remote \in {[roles |-> <<>>, scope |-> [ProjectID |-> b[1], EnvironmentID |-> b[2]],
                    faults |-> {}, scopeFaults |-> ScopeFaults] : b \in ScopeBodies}
    /\ call = NoCall
    /\ ret = [resp |-> Nil, err |-> Nil]
    /\ requests = <<>>
    /\ ctx = "live"
    /\ trace = <<>>
    /\ callers = [g \in Goroutines |-> Idle]
    /\ scopeMu = Unlocked

NextScope ==
    \E g \in Goroutines :
        \/ EnsureScopeCall(g)
        \/ EnsureScopeFastPath(g)
        \/ EnsureScopeLock(g)
        \/ EnsureScopeDoubleCheck(g)
        \/ EnsureScopeFetch(g)
        \/ EnsureScopeInitialized(g)

SpecScope == InitScope /\ [][NextScope]_vars

----------------------------------------------------------------------------
(* Specification SpecExpand: getRolePermissions from an empty visited map    *)
(* on every inheritance graph over three roles: self-extension, cycles of   *)
(* length two and three, parents reachable along several paths, parents     *)
(* absent from the catalog; permission strings repeated within one role     *)
(* and across roles.                                                        *)

GraphKeys == <<"a", "b", "c">>

\* A key no role of the catalog has.
UnknownKey == "ghost"

\* What each role declares: "x:r" twice in a, again in b; "z:r" in c only.
Declared ==
    [a |-> <<(<<"x", ":", "r">>), (<<"x", ":", "r">>)>>,
     b |-> <<(<<"x", ":", "r">>), (<<"y", ":", "r">>)>>,
     c |-> <<(<<"z", ":", "r">>)>>]

ParentLists == NoDupSeqsUpTo(Range(GraphKeys) \cup {UnknownKey}, MaxParents)

Graphs ==
    {[i \in DOMAIN GraphKeys |->
         [Key |-> GraphKeys[i], Permissions |-> Declared[GraphKeys[i]], Extends |-> es[i]]] :
        es \in [DOMAIN GraphKeys -> ParentLists]}

InitExpand ==
    /\ config = [ThrowOnError |-> FALSE, ProjectID |-> "p1", EnvironmentID |-> "e1",
                 RetryAttempts |-> 3]
    /\ scopeInitialized = FALSE
    /\ remote \in {[roles |-> g, scope |-> [ProjectID |-> "p1", EnvironmentID |-> "e1"],
                    faults |-> {}, scopeFaults |-> {}] : g \in Graphs}
    /\ call = NoCall
    /\ ret = [resp |-> Nil, err |-> Nil]
    /\ requests = <<>>
    /\ ctx = "live"
    /\ trace = <<>>
    /\ callers = <<>>
    /\ scopeMu = Unlocked

\* getRolePermissions(roleKey, rolesMap, make(map[string]struct{})) on the
\* map built from the fetched roles, as CheckWithDetails calls it.
Expand ==
    \E roleKey \in Range(GraphKeys) \cup {UnknownKey} :
        /\ call' = [op |-> "getRolePermissions", roleKey |-> roleKey]
        /\ ret' = [resp |-> RolePermissions(roleKey, BuildRolesMap(remote.roles)),
                   err |-> Nil]
        /\ UNCHANGED <<config, scopeInitialized, remote, requests, ctx, trace, callers,
                       scopeMu>>

NextExpand == Expand

SpecExpand == InitExpand /\ [][NextExpand]_vars

----------------------------------------------------------------------------
(* Specification SpecDeep: getRolePermissions on the inheritance graphs     *)
(* over the same three roles and a fourth, d, that extends nothing: graphs  *)
(* two levels deep below a role with two parents, where the order of the    *)
(* traversal shows in the order of the result.                              *)

\* d declares a string of its own and repeats one of b.
DeepLeaf ==
    [Key |-> "d", Permissions |-> <<(<<"w", ":", "r">>), (<<"y", ":", "r">>)>>,
     Extends |-> <<>>]

DeepGraphs ==
    {[i \in DOMAIN GraphKeys |->
         [Key |-> GraphKeys[i], Permissions |-> Declared[GraphKeys[i]], Extends |-> es[i]]]
       \o <<DeepLeaf>> :
        es \in [DOMAIN GraphKeys ->
                  NoDupSeqsUpTo(Range(GraphKeys) \cup {DeepLeaf.Key}, MaxParents)]}

InitDeep ==
    /\ config = [ThrowOnError |-> FALSE, ProjectID |-> "p1", EnvironmentID |-> "e1",
                 RetryAttempts |-> 3]
    /\ scopeInitialized = FALSE
    /\ remote \in {[roles |-> g, scope |-> [ProjectID |-> "p1", EnvironmentID |-> "e1"],
                    faults |-> {}, scopeFaults |-> {}] : g \in DeepGraphs}
    /\ call = NoCall
    /\ ret = [resp |-> Nil, err |-> Nil]
    /\ requests = <<>>
    /\ ctx = "live"
    /\ trace = <<>>
    /\ callers = <<>>
    /\ scopeMu = Unlocked

SpecDeep == InitDeep /\ [][NextExpand]_vars

----------------------------------------------------------------------------
(* Specification SpecPerms: GetPermissions for users holding any short list *)
(* of assignments, on catalogs with inheritance, a cycle and absent roles,  *)
(* in strict and in lenient mode, the remote service failing any fetch.     *)

\* editor and viewer extend each other and share "d:r"; "auditor" is
\* assigned to users but is no role of the catalog.
CyclicCatalog ==
    <<[Key |-> "editor", Permissions |-> <<(<<"d", ":", "w">>), (<<"d", ":", "r">>)>>,
       Extends |-> <<"viewer">>],
      [Key |-> "viewer", Permissions |-> <<(<<"d", ":", "r">>), (<<"e", ":", "*">>)>>,
       Extends |-> <<"editor", "auditor">>]>>

PermsDom ==
    [users |-> {"u1", ""}, tenants |-> {"", "t1"}, resources |-> {"", "d"},
     lists |-> SeqsUpTo(RoleKeys \cup {"auditor"}, MaxAssign)]

InitPerms ==
    /\ config \in {[ThrowOnError |-> t, ProjectID |-> "p1", EnvironmentID |-> "e1",
                     RetryAttempts |-> 3] : t \in BOOLEAN}
    /\ scopeInitialized = FALSE
    /\ remote \in {[roles |-> c, scope |-> [ProjectID |-> "p1", EnvironmentID |-> "e1"],
                    faults |-> AllFaults, scopeFaults |-> {}] :
                      c \in {ScenarioCatalog, CyclicCatalog, <<>>}}
    /\ call = NoCall
    /\ ret = [resp |-> Nil, err |-> Nil]
    /\ requests = <<>>
    /\ ctx = "live"
    /\ trace = <<>>
    /\ callers = <<>>
    /\ scopeMu = Unlocked

NextPerms == GetPermissionsCall(PermsDom)

SpecPerms == InitPerms /\ [][NextPerms]_vars

----------------------------------------------------------------------------
(* Specification SpecHdr: the headers of the requests of a client           *)
(* configured with any token and any small map of custom headers, among     *)
(* them keys that name the Authorization header in another spelling.        *)

CustomHeaderMaps ==
    {m \in SUBSET ({"X-Trace", "authorization", "Authorization"} \X {<<"1">>, <<"Basic dXNlcg==">>}) :
        \A e1, e2 \in m : e1[1] = e2[1] => e1 = e2}

InitHdr ==
    /\ config \in {[ThrowOnError |-> FALSE, ProjectID |-> "p1", EnvironmentID |-> "e1",
                     RetryAttempts |-> 3, Token |-> t, CustomHeaders |-> m] :
                       t \in {"permis_key_a", "permis_key_b"}, m \in CustomHeaderMaps}
    /\ scopeInitialized = FALSE
    /\ remote = [roles |-> <<>>, scope |-> [ProjectID |-> "p1", EnvironmentID |-> "e1"],
                 faults |-> {}, scopeFaults |-> {}]
    /\ call = NoCall
    /\ ret = [resp |-> Nil, err |-> Nil]
    /\ requests = <<>>
    /\ ctx = "live"
    /\ trace = <<>>
    /\ callers = <<>>
    /\ scopeMu = Unlocked

NextHdr == DoRequestSend \/ ScopeSend

SpecHdr == InitHdr /\ [][NextHdr]_vars

----------------------------------------------------------------------------
(* Specification SpecInst: checks by users with and without attributes on   *)
(* resources with and without an instance key, a tenant and attributes, on  *)
(* the clients and remote services of SpecErr.                              *)

InstDom ==
    [users |-> [Key : {"u1", "u2"}, Attributes : {{}, {<<"dept", "ops">>}}],
     actions |-> EvalActions,
     resources |-> [Type : {<<"d">>}, Key : {"", "k1", "k2"}, Tenant : {"", "t1"},
                    Attributes : {{}, {<<"owner", "u1">>}}],
     lists |-> {<<>>, <<"editor">>, <<"viewer">>}]

NextInst == CheckWithDetailsOn(InstDom)

SpecInst == InitErr /\ [][NextInst]_vars

----------------------------------------------------------------------------
(* Properties of the permission check *)

\* The role keys reachable from the keys S through zero or more extends
\* edges of the catalog data.
RECURSIVE ReachableFrom(_, _)
ReachableFrom(S, data) ==
    LET parents == UNION {Range(data[i].Extends) :
                             i \in {j \in DOMAIN data : data[j].Key \in S}}
    IN  IF parents \subseteq S THEN S ELSE ReachableFrom(S \cup parents, data)

\* Own plus inherited permissions of role key k in the catalog data.
ExpandedPermissions(k, data) ==
    UNION {Range(data[i].Permissions) :
              i \in {j \in DOMAIN data : data[j].Key \in ReachableFrom({k}, data)}}

\* The three permission strings that grant action on resourceType.
GrantingForms(resourceType, action) ==
    {resourceType \o <<":">> \o action, resourceType \o <<":", "*">>, <<"*", ":", "*">>}

\* The last call was a CheckWithDetails whose fetches all succeeded.
CheckFetched ==
    /\ call.op = "CheckWithDetails"
    /\ call.net.scope.kind \in {"none", "ok"}
    /\ call.net.assignments.ok
    /\ call.net.roles.asked => call.net.roles.ok

\* The assigned role keys whose expansion grants the checked permission.
GrantingAssignedRoles ==
    {k \in AssignedRoleKeys(call.net.assignments.data) :
        ExpandedPermissions(k, remote.roles)
            \cap GrantingForms(call.resource.Type, call.action) # {}}

\* C1: when both fetches succeed, CheckWithDetails allows exactly when some
\* distinct assigned role key has an expanded permission set containing
\* "<type>:<action>", "<type>:*" or "*:*"; nothing else grants access.
C1_AllowedIffRoleGrants ==
    CheckFetched =>
        /\ ret.err = Nil
        /\ ret.resp # Nil
        /\ ret.resp.Allowed <=> GrantingAssignedRoles # {}

\* C1 witness: access granted through an inherited permission only: no
\* assigned role declares a granting permission itself.
C1_Witness ==
    /\ CheckFetched
    /\ ret.resp.Allowed
    /\ \A i \in DOMAIN remote.roles :
           remote.roles[i].Key \in AssignedRoleKeys(call.net.assignments.data)
               => Range(remote.roles[i].Permissions)
                      \cap GrantingForms(call.resource.Type, call.action) = {}

\* C2: "*:*" on an assigned role, declared or inherited, allows every
\* (action, resourceType) pair.
C2_UniversalWildcardAllows ==
    (/\ CheckFetched
     /\ \E k \in AssignedRoleKeys(call.net.assignments.data) :
            <<"*", ":", "*">> \in ExpandedPermissions(k, remote.roles))
        => (ret.resp # Nil /\ ret.resp.Allowed)

\* C2 witness: the only permission in the catalog is an inherited "*:*" and
\* a check on type "e" is allowed.
C2_Witness ==
    /\ CheckFetched
    /\ call.resource.Type = <<"e">>
    /\ ret.resp.Allowed
    /\ \A i \in DOMAIN remote.roles :
           Range(remote.roles[i].Permissions) \subseteq {<<"*", ":", "*">>}
    /\ \E i \in DOMAIN remote.roles :
           /\ remote.roles[i].Key \in AssignedRoleKeys(call.net.assignments.data)
           /\ remote.roles[i].Permissions = <<>>

\* The type W of the single permission "W:*" of a wildcard catalog.
WildcardType ==
    LET p == remote.roles[1].Permissions[1] IN SubSeq(p, 1, Len(p) - 2)

\* The last call was a check, all fetches answered, against a wildcard
\* catalog whose role is assigned.
WildcardChecked ==
    /\ CheckFetched
    /\ ret.resp # Nil
    /\ remote.roles = WildcardCatalog(WildcardType)
    /\ AssignedRoleKeys(call.net.assignments.data) = {"editor"}

\* C3 as stated: "<type>:*" held by an assigned role allows every action on
\* resources of type <type> and allows no action on a resource of any
\* different type string, for all type and action strings.
C3_TypeWildcardAllStrings ==
    WildcardChecked =>
        (ret.resp.Allowed <=> call.resource.Type = WildcardType)

\* C3: "<type>:*" held by an assigned role allows every action on resources
\* of type <type>, for all type and action strings; it allows no action on
\* a resource of a different type string provided <type> contains no ':'
\* and is not "*".
C3_TypeWildcard ==
    WildcardChecked =>
        /\ call.resource.Type = WildcardType => ret.resp.Allowed
        /\ (/\ call.resource.Type # WildcardType
            /\ ":" \notin Range(WildcardType)
            /\ WildcardType # <<"*">>) => ~ret.resp.Allowed

\* C3 witness: the role holds "a:*"; the action ":*" on the different type
\* "a:" is refused.
C3_Witness ==
    /\ WildcardChecked
    /\ WildcardType = <<"a">>
    /\ call.resource.Type = <<"a", ":">>
    /\ call.action = <<":", "*">>
    /\ ~ret.resp.Allowed

\* The required permission string the last check built: it is reported in
\* MatchedPermissions when the check allows and in the reason when it
\* refuses.
RequiredOfLastCall ==
    IF ret.resp.Allowed THEN ret.resp.Debug.MatchedPermissions[1]
    ELSE ret.resp.Reason.args

\* C40 as stated: the required permission string identifies the checked
\* pair: no different (type, action) pair builds the string the check
\* built, for all strings, those containing ':' included.
C40_RequiredPermissionIdentifiesPair ==
    CheckFetched =>
        \A resourceType \in Strings, action \in Strings :
            RequiredPermission(resourceType, action) = RequiredOfLastCall
                => (resourceType = call.resource.Type /\ action = call.action)

\* C40: among resource types that contain no ':', the required permission
\* string identifies the checked pair, whatever the actions contain.
C40_IdentifiesPairOfPlainTypes ==
    (CheckFetched /\ ":" \notin Range(call.resource.Type)) =>
        \A resourceType \in Strings, action \in Strings :
            (/\ ":" \notin Range(resourceType)
             /\ RequiredPermission(resourceType, action) = RequiredOfLastCall)
                => (resourceType = call.resource.Type /\ action = call.action)

\* C40's case: the check of action ":a" on type "a" was refused for want
\* of "a::a", the string the pair ("a:", "a") builds as well.
C40_Witness ==
    /\ CheckFetched
    /\ call.resource.Type = <<"a">>
    /\ call.action = <<":", "a">>
    /\ ~ret.resp.Allowed
    /\ RequiredOfLastCall = <<"a", ":", ":", "a">>
    /\ RequiredPermission(<<"a", ":">>, <<"a">>) = RequiredOfLastCall

\* C4: Debug.MatchedRoles lists exactly the directly assigned role keys whose
\* expansion matches, each once (an inherited parent only if it is itself
\* assigned), and allowed holds exactly when MatchedRoles is non-empty.
C4_MatchedRolesAreAssignedGranting ==
    (CheckFetched /\ call.net.roles.asked) =>
        /\ ret.resp # Nil /\ ret.resp.Debug # Nil
        /\ Range(ret.resp.Debug.MatchedRoles) = GrantingAssignedRoles
        /\ NoDup(ret.resp.Debug.MatchedRoles)
        /\ ret.resp.Allowed <=> ret.resp.Debug.MatchedRoles # <<>>

\* C4 witness: "editor" is assigned twice and inherits the grant from
\* "viewer", which is not assigned: MatchedRoles is <<"editor">>.
C4_Witness ==
    /\ CheckFetched /\ call.net.roles.asked
    /\ Len(call.net.assignments.data) = 2
    /\ AssignedRoleKeys(call.net.assignments.data) = {"editor"}
    /\ \E i \in DOMAIN remote.roles :
           /\ remote.roles[i].Key = "editor"
           /\ remote.roles[i].Permissions = <<>>
           /\ remote.roles[i].Extends = <<"viewer">>
    /\ ret.resp.Allowed
    /\ ret.resp.Debug.MatchedRoles = <<"editor">>

\* The evaluation of the last call had the runtime iterated the roleKeys
\* map in the order o.
IteratedAs(o) ==
    CheckWithDetails(call.before.config, call.before.scopeInitialized,
                     call.user, call.action, call.resource,
                     [call.net EXCEPT !.order = o])

\* C37: allowed and the set of matched roles are determined by the inputs
\* and the remote responses alone: every order of iterating the distinct
\* assigned role keys yields the same allowed and the same set of roles.
C37_IterationOrderIrrelevant ==
    (CheckFetched /\ call.net.roles.asked) =>
        \A o \in Orders(AssignedRoleKeys(call.net.assignments.data)) :
            LET other == IteratedAs(o)
            IN  /\ other.err = ret.err
                /\ other.resp.Allowed = ret.resp.Allowed
                /\ Range(other.resp.Debug.MatchedRoles)
                       = Range(ret.resp.Debug.MatchedRoles)

\* C37's case: two assigned roles both grant, and another iteration order
\* lists them the other way round.
C37_Witness ==
    /\ CheckFetched /\ call.net.roles.asked
    /\ Len(ret.resp.Debug.MatchedRoles) = 2
    /\ \E o \in Orders(AssignedRoleKeys(call.net.assignments.data)) :
           /\ IteratedAs(o).resp.Debug.MatchedRoles # ret.resp.Debug.MatchedRoles
           /\ IteratedAs(o).resp.Allowed

\* The role keys the catalog data has a record for.
CatalogKeys(data) == {data[i].Key : i \in DOMAIN data}

\* The catalog data with every extends entry that names no catalog role
\* taken out.
WithoutDangling(data) ==
    [i \in DOMAIN data |->
        [data[i] EXCEPT !.Extends = SelectSeq(data[i].Extends,
                                              LAMBDA k : k \in CatalogKeys(data))]]

\* C22: a role key absent from the fetched catalog, assigned or named in an
\* extends list, contributes nothing and is no error: the check returns a
\* decision, and the roles that match are the assigned catalog roles that
\* grant in the catalog with the dangling parents left out.
C22_AbsentRolesContributeNothing ==
    (CheckFetched /\ call.net.roles.asked) =>
        /\ ret.err = Nil
        /\ ret.resp # Nil /\ ret.resp.Debug # Nil
        /\ Range(ret.resp.Debug.MatchedRoles) =
               {k \in AssignedRoleKeys(call.net.assignments.data)
                         \cap CatalogKeys(remote.roles) :
                   ExpandedPermissions(k, WithoutDangling(remote.roles))
                       \cap GrantingForms(call.resource.Type, call.action) # {}}

\* C22's case: the catalog has "editor" only, which grants and extends the
\* absent "viewer"; the user is assigned both keys, and is allowed through
\* "editor".
C22_Witness ==
    /\ CheckFetched /\ call.net.roles.asked
    /\ CatalogKeys(remote.roles) = {"editor"}
    /\ remote.roles[1].Extends = <<"viewer">>
    /\ AssignedRoleKeys(call.net.assignments.data) = {"editor", "viewer"}
    /\ ret.err = Nil
    /\ ret.resp.Allowed
    /\ ret.resp.Debug.MatchedRoles = <<"editor">>

\* C26: in every decision of CheckWithDetails MatchedRoles and
\* MatchedPermissions are sets: no role key twice in the one, no permission
\* string twice in the other, also when several assigned roles grant.
C26_MatchedAreSets ==
    (CheckFetched /\ call.net.roles.asked) =>
        /\ NoDup(ret.resp.Debug.MatchedRoles)
        /\ NoDup(ret.resp.Debug.MatchedPermissions)

----------------------------------------------------------------------------
(* Properties of the error handling of the permission check *)

\* text occurs in s as a contiguous part.
Embeds(s, text) ==
    \E k \in 0..(Len(s) - Len(text)) : SubSeq(s, k + 1, k + Len(text)) = text

\* The last call evaluated a check, and its assignment fetch, or else its
\* role-catalog fetch, failed.
FetchFailure ==
    /\ call.op \in {"CheckWithDetails", "CheckAndThrow"}
    /\ \/ call.net.assignments.asked /\ ~call.net.assignments.ok
       \/ call.net.roles.asked /\ ~call.net.roles.ok

\* The error of the failed fetch.
FetchError ==
    IF call.net.assignments.asked /\ ~call.net.assignments.ok
    THEN call.net.assignments.err
    ELSE call.net.roles.err

\* C5: an assignment fetch that succeeds with zero assignments yields
\* allowed=false, the "no role assignments" reason and a nil error, in lenient
\* and in strict mode alike.
C5_NoAssignmentsRefused ==
    (/\ call.op = "CheckWithDetails"
     /\ call.net.assignments.ok
     /\ Len(call.net.assignments.data) = 0)
        => /\ ret.err = Nil
           /\ ret.resp # Nil
           /\ ret.resp.Allowed = FALSE
           /\ ret.resp.Reason.fmt = "User %s has no role assignments"
           /\ ret.resp.Reason.args = <<call.user.Key>>

\* C5 witness: a strict-mode client gets an empty assignment list.
C5_Witness ==
    /\ call.op = "CheckWithDetails"
    /\ call.before.config.ThrowOnError
    /\ call.net.assignments.ok
    /\ Len(call.net.assignments.data) = 0
    /\ ret.err = Nil

SameEvaluation ==
    CheckWithDetails(call.before.config, call.before.scopeInitialized,
                     call.user, call.action, call.resource, call.net)

\* C8: CheckAndThrow runs the evaluation of CheckWithDetails; it returns nil
\* exactly when that yields allowed=true, the ACCESS_DENIED error (status
\* 403) when it yields allowed=false, and the evaluation's error unchanged
\* when it fails.
C8_CheckAndThrow ==
    call.op = "CheckAndThrow" =>
        /\ requests = SameEvaluation.requests
        /\ ret.err = Nil <=> (SameEvaluation.err = Nil /\ SameEvaluation.resp.Allowed)
        /\ SameEvaluation.err # Nil => ret.err = SameEvaluation.err
        /\ (SameEvaluation.err = Nil /\ ~SameEvaluation.resp.Allowed)
               => /\ ret.err # Nil
                  /\ ret.err.type = "PermisError"
                  /\ ret.err.Code = "ACCESS_DENIED"
                  /\ ret.err.StatusCode = 403

\* C8 witness: a lenient client whose assignment fetch fails gets the
\* access-denied error from CheckAndThrow.
C8_Witness ==
    /\ call.op = "CheckAndThrow"
    /\ ~call.before.config.ThrowOnError
    /\ FetchFailure
    /\ ret.err # Nil
    /\ ret.err.type = "PermisError"
    /\ ret.err.Code = "ACCESS_DENIED"

FetchFailedIn(net) ==
    \/ net.assignments.asked /\ ~net.assignments.ok
    \/ net.roles.asked /\ ~net.roles.ok

BulkItemFailedClosed ==
    /\ call.op = "BulkCheck" /\ call.pc = "done"
    /\ \E i \in DOMAIN call.results :
           /\ FetchFailedIn(call.items[i].net)
           /\ ~call.results[i].Response.Allowed

\* The role-assignment requests among the requests sent.
AssignmentRequests == SelectSeq(requests, LAMBDA r : r.endpoint = "role_assignments")

\* The query of request r filters parameter name by value, and by no other
\* value.
Filters(r, name, value) == {p \in r.query : p[1] = name} = {<<name, value>>}

\* C27: the role-assignment request of a check always carries a user filter
\* equal to the user's key, for every key including the empty string, and a
\* tenant filter equal to resource.Tenant exactly when that is non-empty.
C27_AssignmentsFilteredByUser ==
    (call.op \in {"CheckWithDetails", "CheckAndThrow"} /\ call.net.assignments.asked) =>
        /\ Len(AssignmentRequests) = 1
        /\ Filters(AssignmentRequests[1], "user", call.user.Key)
        /\ IF call.resource.Tenant # ""
           THEN Filters(AssignmentRequests[1], "tenant", call.resource.Tenant)
           ELSE \A p \in AssignmentRequests[1].query : p[1] # "tenant"

\* The same, for the users whose key is not empty.
FilteredByUserWhenNamed ==
    call.op # "none" /\ call.user.Key # "" => C27_AssignmentsFilteredByUser

\* The last call was a check that got past scope resolution.
CheckedPastScope ==
    /\ call.op \in {"CheckWithDetails", "CheckAndThrow"}
    /\ call.net.assignments.asked

\* The requests sent after scope resolution.
Fetches == SelectSeq(requests, LAMBDA r : r.endpoint # "scope")

\* C29 as stated: every check that gets past scope resolution performs at
\* least two fetches, first the role assignments and then the role catalog.
C29_TwoFetchesPerCheck ==
    CheckedPastScope =>
        /\ Len(Fetches) >= 2
        /\ Fetches[1].endpoint = "role_assignments"
        /\ Fetches[2].endpoint = "roles"

\* C29: every check that gets past scope resolution fetches the role
\* assignments first and then, only when that fetch succeeded with at least
\* one assignment, the role catalog; its decision comes from the
\* assignments and the catalog fetched by this call.
C29_FetchesPerCheck ==
    CheckedPastScope =>
        /\ Fetches[1].endpoint = "role_assignments"
        /\ IF call.net.assignments.ok /\ call.net.assignments.data # <<>>
           THEN /\ Len(Fetches) = 2
                /\ Fetches[2].endpoint = "roles"
                /\ call.net.roles.asked
           ELSE Len(Fetches) = 1 /\ ~call.net.roles.asked
        /\ (call.op = "CheckWithDetails" /\ call.net.roles.ok) =>
               (ret.resp.Allowed <=>
                    \E k \in AssignedRoleKeys(call.net.assignments.data) :
                        ExpandedPermissions(k, call.net.roles.data)
                            \cap GrantingForms(call.resource.Type, call.action) # {})

\* C29's case: a client that has to resolve its scope first; the check then
\* fetches the assignments and the catalog and allows.
C29_Witness ==
    /\ CheckedPastScope
    /\ call.op = "CheckWithDetails"
    /\ Len(requests) = 3
    /\ requests[1].endpoint = "scope"
    /\ Len(Fetches) = 2
    /\ ret.resp # Nil /\ ret.resp.Allowed

\* The users and resources of InstDom that differ from those of the last
\* call at most in the attributes and in the instance key.
SameIdentity(user, resource) ==
    /\ user.Key = call.user.Key
    /\ resource.Type = call.resource.Type
    /\ resource.Tenant = call.resource.Tenant

\* C30: the outcome of a check (error, allowed, reason, matched roles) and
\* the requests it issues are the same for two calls that differ only in
\* the resource instance key, the resource attributes or the user
\* attributes, given the same remote data: the last call, made again on
\* the same client with the same responses and any such user and resource,
\* returns what it returned and sends what it sent.
C30_InstanceAndAttributesIgnored ==
    call.op = "CheckWithDetails" =>
        \A user \in InstDom.users, resource \in InstDom.resources :
            SameIdentity(user, resource) =>
                LET again == CheckWithDetails(call.before.config,
                                              call.before.scopeInitialized,
                                              user, call.action, resource, call.net)
                IN  /\ again.resp = ret.resp
                    /\ again.err = ret.err
                    /\ again.requests = requests

\* C30's case: a check of a resource instance with attributes by a user
\* with attributes, allowed through the assigned role.
C30_Witness ==
    /\ call.op = "CheckWithDetails"
    /\ call.resource.Key = "k1"
    /\ call.resource.Attributes # {}
    /\ call.user.Attributes # {}
    /\ ret.resp # Nil /\ ret.resp.Allowed
    /\ ret.resp.Debug.MatchedRoles = <<"editor">>

----------------------------------------------------------------------------
(* Properties of scope resolution *)

\* Goroutine g is inside ensureScope or has returned from it.
HasCalled(g) == callers[g].pc # "idle" \/ callers[g].returned

\* The scope was known when g made its current or last call: configured in
\* full, or an earlier resolution had succeeded.
KnownAtCall(g) ==
    /\ HasCalled(g)
    /\ \/ HasScope(callers[g].before.config)
       \/ callers[g].before.scopeInitialized

\* g made its current or last call after the first successful resolution
\* had returned.
CalledAfterResolution(g) == HasCalled(g) /\ callers[g].before.scopeInitialized

\* g is blocked in c.scopeMu.Lock().
WaitsOnLock(g) == callers[g].pc = "lock" /\ scopeMu # Unlocked

\* C14, the failed fetch that a later caller repeats set aside: under any
\* number of concurrent callers of ensureScope and any interleaving no
\* scope fetch is made once one has succeeded, and no caller that starts
\* after the first successful resolution waits on the lock.
C14_OneFetchNoWaiting ==
    \A g \in Goroutines :
        /\ Written => callers[g].pc # "fetch"
        /\ CalledAfterResolution(g) => ~WaitsOnLock(g)

\* C15: a call of ensureScope made when the scope is known, configured in
\* full or resolved by an earlier call, issues no network call and returns
\* nil.
C15_KnownScopeNoFetch ==
    \A g \in Goroutines :
        KnownAtCall(g) =>
            /\ callers[g].pc \notin {"fetch", "init"}
            /\ callers[g].out.kind = "none"
            /\ callers[g].returned => callers[g].err = Nil

\* C15 witness: one call has resolved the scope with the only fetch, and a
\* call made afterwards has returned nil.
C15_Witness ==
    /\ scopeInitialized
    /\ Len(requests) = 1
    /\ \E g \in Goroutines :
           /\ callers[g].returned
           /\ callers[g].before.scopeInitialized
           /\ callers[g].err = Nil

\* The scope is set: configured in full, or stored by a resolution.
ScopeSet == HasScope(config) \/ Written

\* C16: the scope is written at most once. Once projectID and
\* environmentID are set, by configuration or by a successful resolution,
\* no step changes either; until then they stay as configured, the one
\* change being the store of the resolution.
C16_ScopeWrittenOnce ==
    [][(config'.ProjectID # config.ProjectID
            \/ config'.EnvironmentID # config.EnvironmentID)
          => (~ScopeSet /\ Written')]_vars

\* C16 witness: a client configured with a project only has resolved its
\* scope to the fetched pair, and a later call has returned.
C16_Witness ==
    /\ scopeInitialized
    /\ config.ProjectID = "p2" /\ config.EnvironmentID = "e2"
    /\ \E g \in Goroutines :
           /\ callers[g].returned
           /\ callers[g].before.scopeInitialized
    /\ \E g \in Goroutines :
           /\ callers[g].returned
           /\ callers[g].before.config.ProjectID = "p1"

\* The step is g's scope fetch, and the fetch fails.
FetchFailsFor(g) ==
    /\ callers[g].pc = "fetch"
    /\ callers'[g].out.kind \in ScopeFaults

\* C17: when the scope fetch fails (network error, non-200 status or
\* undecodable body) with no scope established, ensureScope returns an
\* error and leaves the client as it was, scopeInitialized false and the
\* scope as before, so that a later call has to attempt discovery again.
C17_FailedFetchLeavesClient ==
    [][\A g \in Goroutines :
          FetchFailsFor(g) =>
              /\ callers'[g].returned
              /\ callers'[g].err # Nil
              /\ config' = config
              /\ scopeInitialized' = FALSE
              /\ NeedsScopeFetch(config', scopeInitialized')]_vars

\* C17 witness: a call has returned the error of a failed fetch and a
\* second fetch has been made.
C17_Witness ==
    /\ Len(requests) = 2
    /\ \E g \in Goroutines :
           /\ callers[g].returned
           /\ callers[g].out.kind = "decode"
           /\ callers[g].err # Nil
    /\ \E g \in Goroutines : callers[g].out.kind = "ok"

\* g is inside fetchAndSetScope or between its return and the write of
\* scopeInitialized.
Fetching(g) == callers[g].pc \in {"fetch", "init"}

\* C39: at most one scope-discovery fetch is in flight at any moment, and
\* the goroutine making it holds scopeMu; a fetch starts only when no
\* earlier fetch has stored a scope, that is after every earlier fetch
\* returned with a failure; and the fetched scope and scopeInitialized are
\* written only by the goroutine that holds scopeMu.
C39_FetchesSerialised ==
    [][/\ \A g \in Goroutines : (callers'[g].pc \in {"fetch", "init"}) => scopeMu' = g
       /\ Len(requests') > Len(requests) =>
              /\ scopeMu # Unlocked
              /\ callers[scopeMu].pc = "fetch"
              /\ ~Written
              /\ \A g \in Goroutines :
                     callers[g].out.kind # "none" => callers[g].out.kind \in ScopeFaults
       /\ (config' # config \/ scopeInitialized' # scopeInitialized) =>
              /\ scopeMu # Unlocked
              /\ Fetching(scopeMu)]_vars

\* C39's case: a first fetch has failed and its caller has returned, a
\* second caller has fetched the scope and is about to write
\* scopeInitialized under the mutex, and a third waits on the mutex.
C39_Witness ==
    /\ Len(requests) = 2
    /\ \E g \in Goroutines :
           /\ callers[g].returned
           /\ callers[g].out.kind \in ScopeFaults
    /\ \E g \in Goroutines :
           /\ callers[g].pc = "init"
           /\ scopeMu = g
    /\ \E g \in Goroutines : WaitsOnLock(g)

\* C18: whenever ensureScope has returned no error, projectID and
\* environmentID are both non-empty and the facts and schema URLs built
\* from then on carry them, whatever body the scope endpoint sent with its
\* 200.
C18_NilMeansScoped ==
    \A g \in Goroutines :
        (callers[g].returned /\ callers[g].err = Nil) =>
            /\ config.ProjectID # "" /\ config.EnvironmentID # ""
            /\ BuildFactsURL(config, "/users")
                   = <<"/v1/facts/", config.ProjectID, "/", config.EnvironmentID, "/users">>
            /\ BuildSchemaURL(config, "/roles")
                   = <<"/v1/schema/", config.ProjectID, "/", config.EnvironmentID, "/roles">>

----------------------------------------------------------------------------
(* Properties of the retrying transport *)

\* The attempts of the running or finished Request that reached the HTTP
\* client.
HttpAttempts == SelectSeq(trace, LAMBDA e : e.ev = "attempt" /\ e.sent)

\* C10 as stated: the number of HTTP attempts of a Request never exceeds the
\* configured RetryAttempts (read for a RetryAttempts that is not negative).
C10_AttemptsWithinRetryAttempts ==
    (call.op = "Request" /\ config.RetryAttempts >= 0)
        => Len(HttpAttempts) <= config.RetryAttempts

\* C10: the number of HTTP attempts of a Request never exceeds
\* RetryAttempts + 1, the first attempt and RetryAttempts retries (4 by
\* default), whatever the server and the network do; a negative
\* RetryAttempts admits no attempt.
C10_AttemptsBounded ==
    call.op = "Request" =>
        Len(HttpAttempts) <= IF config.RetryAttempts >= 0
                             THEN config.RetryAttempts + 1 ELSE 0

\* C10 witness: under the default configuration every attempt failed with a
\* 500 or a network error and Request gave up after the fourth.
C10_Witness ==
    /\ call.op = "Request" /\ call.pc = "done"
    /\ config.RetryAttempts = DefaultRetryAttempts
    /\ Len(HttpAttempts) = DefaultRetryAttempts + 1
    /\ \E i \in DOMAIN HttpAttempts : HttpAttempts[i].out.kind = "network"
    /\ \E i \in DOMAIN HttpAttempts : HttpAttempts[i].out.status = 500
    /\ ret.err = ErrServer

\* What Request itself did: the trace without the caller's cancellation.
RequestEvents == SelectSeq(trace, LAMBDA e : e.ev # "cancel")

\* Every doRequest of the running or finished Request.
Attempts == SelectSeq(trace, LAMBDA e : e.ev = "attempt")

\* The attempt failed with a network-level error or a 5xx response.
TransientFailure(e) ==
    /\ e.sent
    /\ \/ e.out.kind \in {"network", "read"}
       \/ e.out.kind = "response" /\ e.out.status >= 500

\* Request has done k failed attempts, each a network-level error or a 5xx,
\* and then an attempt that succeeded.
SucceededAfterFailures ==
    /\ call.op = "Request"
    /\ Attempts # <<>>
    /\ Attempts[Len(Attempts)].err = Nil
    /\ \A i \in 1..(Len(Attempts) - 1) : TransientFailure(Attempts[i])

\* C11: a Request whose first k attempts fail with a 5xx or a network-level
\* error and whose next attempt succeeds returns success after exactly k + 1
\* attempts, the successful one being the last thing it does, and before
\* the attempt with index j >= 1 it waits j*j*100 ms, so that the waits
\* strictly increase.
C11_RetryThenSuccess ==
    SucceededAfterFailures =>
        LET k == Len(Attempts) - 1 IN
        /\ call.pc = "done"
        /\ ret.err = Nil
        /\ Len(RequestEvents) = 2 * k + 1
        /\ \A j \in 0..k :
               /\ RequestEvents[2 * j + 1].ev = "attempt"
               /\ RequestEvents[2 * j + 1].index = j
               /\ RequestEvents[2 * j + 1].sent
        /\ \A j \in 1..k :
               /\ RequestEvents[2 * j].ev = "wait"
               /\ RequestEvents[2 * j].ms = j * j * 100
        /\ \A j \in 2..k : RequestEvents[2 * j - 2].ms < RequestEvents[2 * j].ms

\* C11 witness: a 500, then a refused connection, then a 200: three
\* attempts with waits of 100 ms and 400 ms between them.
C11_Witness ==
    /\ SucceededAfterFailures
    /\ Len(Attempts) = 3
    /\ Attempts[1].out.status = 500
    /\ Attempts[2].out.kind = "network"
    /\ Attempts[3].out.status = 200
    /\ ret.err = Nil
    /\ call.pc = "done"

\* A structured API error whose status is in [400, 500).
ClientError(e) ==
    e # Nil /\ e.type = "PermisError" /\ e.StatusCode \in 400..499

\* C12: an attempt that fails with a structured API error of status in
\* [400, 500) is the last thing Request does: it returns that error at once,
\* with no backoff wait and no further attempt, whatever budget remains.
C12_ClientErrorNotRetried ==
    call.op = "Request" =>
        \A p \in DOMAIN trace :
            (trace[p].ev = "attempt" /\ ClientError(trace[p].err)) =>
                /\ p = Len(trace)
                /\ call.pc = "done"
                /\ ret.err = trace[p].err

\* C12 witness: under the default budget the first attempt is answered 400
\* and Request has returned that error after this single attempt.
C12_Witness ==
    /\ call.op = "Request"
    /\ config.RetryAttempts = DefaultRetryAttempts
    /\ Len(trace) = 1
    /\ trace[1].ev = "attempt"
    /\ trace[1].out.status = 400
    /\ ret.err = PermisError("boom", "E1", 400)
    /\ call.pc = "done"

\* The context was cancelled at position p of the trace while Request was
\* blocked in the backoff select.
CancelledWhileWaiting(p) ==
    trace[p].ev = "cancel" /\ trace[p].pc = "blocked"

\* C13: when the context is cancelled while Request waits in a backoff,
\* Request does nothing more but return the context's error: no attempt
\* follows the cancellation.
C13_CancelDuringBackoff ==
    call.op = "Request" =>
        \A p \in DOMAIN trace :
            CancelledWhileWaiting(p) =>
                /\ p = Len(trace)
                /\ call.pc \in {"ctxdone", "done"}
                /\ call.pc = "done" => ret.err = ErrCanceled

\* C13 witness: after a 500 the context was cancelled during the first
\* backoff, with three retries left, and Request has returned ctx.Err().
C13_Witness ==
    /\ call.op = "Request"
    /\ call.pc = "done"
    /\ config.RetryAttempts = DefaultRetryAttempts
    /\ Len(trace) = 3
    /\ trace[1].ev = "attempt" /\ trace[1].out.status = 500
    /\ trace[2].ev = "wait"
    /\ CancelledWhileWaiting(3)
    /\ ret.err = ErrCanceled

\* The attempts the server answered with a status outside 200-299.
Refused(e) == e.ev = "attempt" /\ e.out.kind = "response" /\ ~(e.out.status \in 200..299)

\* The message the claim gives the error of a response with body b.
MessageOf(status, body) ==
    IF ~body.valid THEN body.raw
    ELSE IF body.message # "" THEN body.message
    ELSE IF body.error # "" THEN body.error
    ELSE StatusText(status)

\* The attempt e failed with the structured error of its response.
FailedWithPermisError(e) ==
    /\ e.err # Nil
    /\ e.err.type = "PermisError"
    /\ e.err.StatusCode = e.out.status
    /\ e.err.Message = MessageOf(e.out.status, e.out.body)

\* C31: every response with a status outside 200-299 makes the attempt fail
\* with a PermisError whose StatusCode is the status and whose message is
\* the body's message field, else its error field, else the status text, or
\* the raw body when the body is not valid JSON.
C31_NonSuccessIsPermisError ==
    \A i \in DOMAIN trace : Refused(trace[i]) => FailedWithPermisError(trace[i])

\* The same for the responses with a status of 400 and above.
ErrorStatusIsPermisError ==
    \A i \in DOMAIN trace :
        (Refused(trace[i]) /\ trace[i].out.status >= 400) => FailedWithPermisError(trace[i])

\* The attempts the server answered with a status of 200-299 and doRequest
\* returned nil for.
Accepted(e) ==
    /\ e.ev = "attempt" /\ e.out.kind = "response" /\ e.out.status \in 200..299
    /\ e.err = Nil

\* C32: a successful response is a no-op only when its body is empty and
\* the result target is nil; otherwise the body is decoded into the result,
\* so an empty body with a non-nil result target is not accepted as an
\* empty result.
C32_SuccessIsDecoded ==
    call.op = "Request" =>
        \A i \in DOMAIN trace :
            Accepted(trace[i]) =>
                \/ trace[i].out.body.raw = "" /\ ~call.result
                \/ call.result /\ trace[i].out.body.fits

\* The part of C32 about a caller that passed a result target: an accepted
\* response has filled it.
ResultIsFilled ==
    call.op = "Request" =>
        \A i \in DOMAIN trace :
            (Accepted(trace[i]) /\ call.result) => trace[i].out.body.fits

\* What the code does: the body is decoded when there is a result target
\* and the body is not empty, and a body that does not decode is an error.
DecodedWhenBoth ==
    call.op = "Request" =>
        \A i \in DOMAIN trace :
            (Accepted(trace[i]) /\ call.result /\ trace[i].out.body.raw # "")
                => trace[i].out.body.fits

\* C34: Request returns a nil error only if at least one HTTP attempt was
\* performed and the last attempt succeeded, for every RetryAttempts a
\* Config built by ConfigBuilder.Build can carry, negative ones included.
C34_NilOnlyAfterSuccess ==
    (call.op = "Request" /\ call.pc = "done" /\ ret.err = Nil) =>
        /\ Len(HttpAttempts) >= 1
        /\ HttpAttempts[Len(HttpAttempts)].err = Nil

\* C34 for the configurations Validate accepts.
NilOnlyAfterSuccessWhenValid ==
    (call.op = "Request" /\ call.pc = "done" /\ ret.err = Nil
        /\ config.RetryAttempts >= 0) =>
        /\ Len(HttpAttempts) >= 1
        /\ HttpAttempts[Len(HttpAttempts)].err = Nil

\* Every round of the loop that called doRequest.
Rounds == SelectSeq(trace, LAMBDA e : e.ev = "attempt")

\* A failure at the level of the network: HTTPClient.Do or reading the body.
NetworkLevel(e) == e.out.kind \in {"network", "read"}

\* C35: a round is followed by another only after a network-level error or
\* a 5xx response: never after a 2xx response (also when its body did not
\* decode) and never after a request body that did not serialise.
C35_RetryOnlyAfterNetworkOr5xx ==
    call.op = "Request" =>
        \A i \in 1 .. (Len(Rounds) - 1) :
            \/ NetworkLevel(Rounds[i])
            \/ Rounds[i].out.kind = "response" /\ Rounds[i].out.status >= 500

\* What the code keeps: no round follows one that doRequest returned nil
\* for, nor one refused with a 4xx.
NoRetryAfterNilOrClientError ==
    call.op = "Request" =>
        \A i \in 1 .. (Len(Rounds) - 1) :
            /\ Rounds[i].err # Nil
            /\ ~IsClientError(Rounds[i].err)

----------------------------------------------------------------------------
(* Properties of BulkCheck *)

\* The responses item i of the running BulkCheck consumed, as a client in
\* the state BulkCheck was called in would consume them: such a client
\* fetches the scope itself where an earlier item had fetched it.
AloneNet(i) ==
    LET net == call.items[i].net IN
    IF /\ NeedsScopeFetch(call.before.config, call.before.scopeInitialized)
       /\ net.scope.kind = "none"
    THEN [net EXCEPT !.scope = [kind |-> "ok", ProjectID |-> remote.scope.ProjectID,
                                EnvironmentID |-> remote.scope.EnvironmentID]]
    ELSE net

\* Request i of the running BulkCheck evaluated alone.
EvaluatedAlone(i) ==
    LET check == call.checks[i] IN
    CheckWithDetails(call.before.config, call.before.scopeInitialized,
                     [Key |-> KeyString(check.User)], check.Action, ResourceOf(check),
                     AloneNet(i))

\* The error that made the evaluation of item i fail, Nil if none did.
ItemError(i) ==
    LET it == call.items[i]
        scoped == ensureScope(it.config, it.scopeInitialized, it.net.scope)
    IN  IF scoped.err # Nil THEN scoped.err
        ELSE IF ~it.net.assignments.ok THEN it.net.assignments.err
        ELSE IF it.net.roles.asked /\ ~it.net.roles.ok THEN it.net.roles.err
        ELSE Nil

\* C36: BulkCheck returns normally, with one result per input, for every
\* sequence of CheckRequest values: also for a User that is not a string and
\* for a Resource that is neither a string nor a map.
C36_BulkCheckTotal ==
    call.op = "BulkCheck" =>
        /\ call.pc # "panic"
        /\ call.pc = "done" => Len(ret.resp.Results) = Len(call.checks)

\* C36 for the Resource alone: over string users every batch gets one
\* result per input, whatever the dynamic type of Resource.
BulkCheckTotalOverStringUsers ==
    (call.op = "BulkCheck" /\ \A i \in DOMAIN call.checks : ~UserAssertionPanics(call.checks[i]))
        => /\ call.pc # "panic"
           /\ call.pc = "done" => Len(ret.resp.Results) = Len(call.checks)

\* C9: BulkCheck over any sequence of n checks returns n results and a nil
\* error; result i carries request i and the decision of evaluating request
\* i alone; an item whose evaluation failed is refused with the error text
\* as its reason, and every other item is reported as if no item had failed.
C9_BulkCheckIsolated ==
    (call.op = "BulkCheck" /\ call.pc # "loop") =>
        /\ call.pc = "done"
        /\ ret.err = Nil
        /\ ret.resp # Nil
        /\ Len(ret.resp.Results) = Len(call.checks)
        /\ \A i \in DOMAIN call.checks :
               LET result == ret.resp.Results[i]
                   alone == EvaluatedAlone(i)
               IN  /\ result.Request = call.checks[i]
                   /\ result.Response.Allowed =
                          (alone.err = Nil /\ alone.resp.Allowed)
                   /\ alone.err = Nil => result.Response = alone.resp
                   /\ ItemError(i) # Nil =>
                          /\ ~result.Response.Allowed
                          /\ result.Response.Reason.args = ErrorText(ItemError(i))

----------------------------------------------------------------------------
(* Properties of role inheritance *)

\* The last call was a top-level getRolePermissions.
Expanded == call.op = "getRolePermissions"

\* The roles on an extends cycle: those reachable from one of their own
\* parents.
OnCycle(data) ==
    {i \in DOMAIN data : data[i].Key \in ReachableFrom(Range(data[i].Extends), data)}

\* C19: on every finite catalog, cyclic ones included (a role extending
\* itself, cycles of any length), getRolePermissions terminates and the list
\* it returns holds no permission string twice. Termination is the operator
\* having a value on every graph of the specification.
C19_ExpansionHasNoDuplicates ==
    Expanded => NoDup(ret.resp)

\* C19's case: three roles on one cycle of length three, the expansion
\* started at a, whose own list repeats a string b declares again.
C19_Witness ==
    /\ Expanded
    /\ call.roleKey = "a"
    /\ remote.roles[1].Extends = <<"b">>
    /\ remote.roles[2].Extends = <<"c">>
    /\ remote.roles[3].Extends = <<"a">>
    /\ OnCycle(remote.roles) = {1, 2, 3}
    /\ Len(ret.resp) = 3

\* C20: the permissions returned by a top-level getRolePermissions of role
\* key r, as a set, are the union of the declared permissions of every
\* catalog role reachable from r through zero or more extends edges, also
\* in graphs with cycles and with a parent reachable along several paths.
C20_ExpansionIsTransitiveClosure ==
    Expanded => Range(ret.resp) = ExpandedPermissions(call.roleKey, remote.roles)

\* C20's case: a extends b and c, b extends c and c extends a, so c is
\* reached from a directly and through b, on a cycle; the expansion of a
\* returns what all three declare.
C20_Witness ==
    /\ Expanded
    /\ call.roleKey = "a"
    /\ remote.roles[1].Extends = <<"b", "c">>
    /\ remote.roles[2].Extends = <<"c">>
    /\ remote.roles[3].Extends = <<"a">>
    /\ Range(ret.resp) = Range(Declared.a) \cup Range(Declared.b) \cup Range(Declared.c)

\* The role keys in the order a depth-first traversal first sees them: the
\* keys of todo in turn, each followed by its parents in declaration order
\* before the next; a key seen before is passed over.
RECURSIVE FirstSeenKeys(_, _, _)
FirstSeenKeys(todo, data, seen) ==
    IF todo = <<>> THEN <<>>
    ELSE IF Head(todo) \in seen THEN FirstSeenKeys(Tail(todo), data, seen)
    ELSE LET declaring == {i \in DOMAIN data : data[i].Key = Head(todo)}
             parents == IF declaring = {} THEN <<>>
                        ELSE data[CHOOSE i \in declaring : TRUE].Extends
         IN  <<Head(todo)>> \o FirstSeenKeys(parents \o Tail(todo), data,
                                             seen \cup {Head(todo)})

\* The declared permission lists of the roles keys, one after the other.
RECURSIVE DeclaredInOrder(_, _)
DeclaredInOrder(keys, data) ==
    IF keys = <<>> THEN <<>>
    ELSE LET declaring == {i \in DOMAIN data : data[i].Key = Head(keys)}
         IN  (IF declaring = {} THEN <<>>
              ELSE data[CHOOSE i \in declaring : TRUE].Permissions)
             \o DeclaredInOrder(Tail(keys), data)

\* The place of the first occurrence of perm in the list all.
FirstAt(perm, all) == CHOOSE i \in DOMAIN all : all[i] = perm /\ \A j \in 1..(i - 1) : all[j] # perm

\* C21: the list getRolePermissions returns is in first-seen order: the
\* role's own permissions in declared order, then the expansion of each
\* parent in declaration order, depth first, every permission string kept
\* only where it occurs first.
C21_FirstSeenOrder ==
    Expanded =>
        LET all == DeclaredInOrder(FirstSeenKeys(<<call.roleKey>>, remote.roles, {}),
                                   remote.roles)
        IN  /\ Range(ret.resp) = Range(all)
            /\ \A i, j \in DOMAIN ret.resp :
                   i < j => FirstAt(ret.resp[i], all) < FirstAt(ret.resp[j], all)

\* C21's case: a extends c then b, c extends d; the expansion of a lists
\* a's string once, then c's, then those of d (reached through c, before
\* b), then nothing new for b, whose strings a and d have already given.
C21_Witness ==
    /\ Expanded
    /\ call.roleKey = "a"
    /\ Len(remote.roles) = 4
    /\ remote.roles[1].Extends = <<"c", "b">>
    /\ remote.roles[2].Extends = <<>>
    /\ remote.roles[3].Extends = <<"d">>
    /\ ret.resp = <<(<<"x", ":", "r">>), (<<"z", ":", "r">>), (<<"w", ":", "r">>),
                    (<<"y", ":", "r">>)>>

----------------------------------------------------------------------------
(* Properties of GetPermissions *)

\* The last call was a GetPermissions that got past scope resolution.
PermissionsAsked ==
    /\ call.op = "GetPermissions"
    /\ call.net.scope.kind \in {"none", "ok"}

\* One of its two fetches failed.
PermissionsFetchFailure ==
    \/ ~call.net.assignments.ok
    \/ call.net.roles.asked /\ ~call.net.roles.ok

\* C23: when both fetches succeed, GetPermissions returns as roles exactly
\* the distinct role keys of the fetched assignments and as permissions
\* exactly the union of the expansions of those roles, each role and each
\* permission once.
C23_EffectivePermissions ==
    (PermissionsAsked /\ ~PermissionsFetchFailure) =>
        /\ ret.err = Nil
        /\ ret.resp # Nil
        /\ Range(ret.resp.Roles) = AssignedRoleKeys(call.net.assignments.data)
        /\ NoDup(ret.resp.Roles)
        /\ Range(ret.resp.Permissions) =
               UNION {ExpandedPermissions(k, remote.roles) :
                         k \in AssignedRoleKeys(call.net.assignments.data)}
        /\ NoDup(ret.resp.Permissions)

\* C23's case: the user is assigned editor and viewer, which extend each
\* other and both declare "d:r": two roles and three permissions come back.
C23_Witness ==
    /\ PermissionsAsked /\ ~PermissionsFetchFailure
    /\ remote.roles = CyclicCatalog
    /\ AssignedRoleKeys(call.net.assignments.data) = {"editor", "viewer"}
    /\ Len(ret.resp.Roles) = 2
    /\ Len(ret.resp.Permissions) = 3

ComparedTypes == {<<"d">>, <<"e">>, <<"f">>}
ComparedActions == {<<"r">>, <<"w">>, <<"*">>}

\* CheckWithDetails for the principal and tenant of the last GetPermissions
\* call, on the client as it was and with the same responses.
CheckedLikewise(resourceType, action) ==
    CheckWithDetails(call.before.config, call.before.scopeInitialized,
                     [Key |-> call.request.User], action,
                     [Type |-> resourceType, Key |-> "", Tenant |-> call.request.Tenant],
                     call.net)

\* C38: Evaluate and GetPermissions agree. For the same principal and
\* tenant, no resource filter and the same successful responses,
\* CheckWithDetails sends the same requests, allows action on T exactly when
\* the permissions of GetPermissions contain "T:<action>", "T:*" or "*:*",
\* and its matched roles are among the roles of GetPermissions.
C38_CheckAgreesWithPermissions ==
    (PermissionsAsked /\ ~PermissionsFetchFailure /\ call.request.Resource = "") =>
        \A resourceType \in ComparedTypes, action \in ComparedActions :
            LET check == CheckedLikewise(resourceType, action)
            IN  /\ check.err = Nil /\ ret.err = Nil
                /\ check.requests = requests
                /\ check.resp.Allowed <=>
                       Range(ret.resp.Permissions)
                           \cap GrantingForms(resourceType, action) # {}
                /\ check.resp.Debug # Nil =>
                       Range(check.resp.Debug.MatchedRoles) \subseteq Range(ret.resp.Roles)

\* C38's case: the permissions returned hold "e:*" and no "e:r", and the
\* check of "r" on "e" is allowed through a role GetPermissions lists.
C38_Witness ==
    /\ PermissionsAsked /\ ~PermissionsFetchFailure /\ call.request.Resource = ""
    /\ <<"e", ":", "*">> \in Range(ret.resp.Permissions)
    /\ <<"e", ":", "r">> \notin Range(ret.resp.Permissions)
    /\ CheckedLikewise(<<"e">>, <<"r">>).resp.Allowed
    /\ CheckedLikewise(<<"e">>, <<"r">>).resp.Debug.MatchedRoles # <<>>
    /\ ~CheckedLikewise(<<"f">>, <<"r">>).resp.Allowed

----------------------------------------------------------------------------
(* Properties of the request headers *)

\* C28: every request the client sends, through doRequest and for scope
\* discovery, carries the Authorization header "Bearer <configured token>",
\* whatever the configured custom headers are.
C28_BearerTokenOnEveryRequest ==
    \A i \in DOMAIN requests :
        {e \in requests[i].headers : e[1] = "Authorization"}
            = {<<"Authorization", <<"Bearer ", config.Token>>>>}

\* The same for the requests whose custom headers do not name the
\* Authorization header, and for those of scope discovery.
BearerTokenUnlessOverridden ==
    \A i \in DOMAIN requests :
        (\A j \in DOMAIN requests[i].custom :
             CanonicalMIMEHeaderKey(requests[i].custom[j][1]) # "Authorization")
            => {e \in requests[i].headers : e[1] = "Authorization"}
                   = {<<"Authorization", <<"Bearer ", config.Token>>>>}

====
